---- MODULE Spec2Model ----
(***************************************************************************)
(* A model of the CPU scheduling simulator: the Process control block, the *)
(* Scheduler base class (process set, ready queue, clock, aggregates) and  *)
(* the schedule() loops of the four policies (FCFS, SJF, Round Robin,      *)
(* Priority).  One loop iteration of schedule() is four steps: arrival     *)
(* admission, dispatch decision, execution of one unit, and the aging /    *)
(* clock / termination check at the end of the iteration.                  *)
(***************************************************************************)
EXTENDS Integers, Sequences, FiniteSets, TLC

\* ---------------------------------------------------------------- bounds
MaxProcs == 3
MaxArrival == 2
MaxBurst == 4
MaxWork == 6
MaxQuantum == 2
MaxRuns == 2
\* the longest burst in the two-process Round Robin runs of SpecRoundRobin
MaxBurstRR == 6
\* SpecProcess: the number of process objects, and the largest value a time
\* field of the first object starts with
MaxObjects == 2
MaxValue == 1
\* no run within the bounds lasts longer than this; the clock stops there
ClockCap == MaxArrival + MaxWork

\* ------------------------------------------------------ program constants
\* enum class Priority { HIGH = 1, MEDIUM = 2, LOW = 3 }
HIGH == 1
MEDIUM == 2
LOW == 3
Priorities == {HIGH, MEDIUM, LOW}

\* enum class ProcessState
ProcessState == {"NEW", "READY", "RUNNING", "WAITING", "TERMINATED"}

\* responseTime / startTime of a process that has not started
Unset == -1

\* nullptr for currentProcess / shortestJob / highestPriorityProcess
NoProcess == 0

\* the four concrete schedulers
Policies == {"FCFS", "SJF", "RR", "Priority"}

VARIABLES
    processes,            \* vector<shared_ptr<Process>>: sequence of process objects
    proc,                 \* process object -> Process record (all fields but pid)
    readyQueue,           \* queue<shared_ptr<Process>>: sequence of process objects
    currentProcess,       \* process object or NoProcess
    currentTime,
    policy,               \* which concrete scheduler this is
    timeQuantum,          \* RoundRobinScheduler::timeQuantum (0 for the others)
    nextPID,              \* Process::nextPID, the static id generator
    pid,                  \* Process::pid of each process object
    quantumRemaining,     \* RoundRobinScheduler::quantumRemaining
    totalProcesses,
    completedProcesses,
    totalWaitingTime,
    totalTurnaroundTime,
    totalResponseTime,
    pc,                   \* position of the caller / of the schedule() loop
    runs,                 \* history: number of runs started
    prevRun,              \* history: metrics the previous run ended with
    sliceRun,             \* history: units the current process executed since its dispatch
    readyWait,            \* history: pid -> ticks aged since it last became READY
    readyPeers            \* history: pid -> most processes READY or RUNNING together while it waited

vars == <<processes, proc, readyQueue, currentProcess, currentTime, policy,
          timeQuantum, nextPID, pid, quantumRemaining, totalProcesses, completedProcesses,
          totalWaitingTime, totalTurnaroundTime, totalResponseTime, pc,
          runs, prevRun, sliceRun, readyWait, readyPeers>>

engineVars == <<processes, proc, readyQueue, currentProcess, currentTime,
                quantumRemaining, completedProcesses,
                totalWaitingTime, totalTurnaroundTime, totalResponseTime>>

histVars == <<runs, prevRun, sliceRun, readyWait, readyPeers>>

\* the scheduler's members other than the process objects themselves
schedulerVars == <<processes, readyQueue, currentProcess, currentTime,
                 quantumRemaining, completedProcesses,
                 totalWaitingTime, totalTurnaroundTime, totalResponseTime>>

\* ---------------------------------------------------------------- helpers
Pids == DOMAIN proc

Range(s) == {s[i] : i \in DOMAIN s}

MaxOf(a, b) == IF a >= b THEN a ELSE b

RECURSIVE SumSeq(_, _)
SumSeq(s, f) == IF s = <<>> THEN 0 ELSE f[Head(s)] + SumSeq(Tail(s), f)

SetMax(S) == CHOOSE x \in S : \A y \in S : y <= x

\* position of pid p in sequence s (0 when absent)
IndexOf(s, p) == IF \E i \in DOMAIN s : s[i] = p
                 THEN CHOOSE i \in DOMAIN s : s[i] = p /\ \A j \in 1..(i-1) : s[j] # p
                 ELSE 0

\* ---------------------------------------------------------------- Process
\* mutant: a constructor that stores its arguments as they come
NewProcess_NoClamp(arrival, burst, prio) ==
    [ state          |-> "NEW",
      priority       |-> prio,
      arrivalTime    |-> arrival,
      burstTime      |-> burst,
      remainingTime  |-> burst,
      waitingTime    |-> 0,
      turnaroundTime |-> 0,
      responseTime   |-> Unset,
      startTime      |-> Unset,
      hasStarted     |-> FALSE ]

\* Process::Process(name, arrival, burst, prio)
NewProcess(arrival, burst, prio) ==
    [ state          |-> "NEW",
      priority       |-> prio,
      arrivalTime    |-> IF arrival < 0 THEN 0 ELSE arrival,
      burstTime      |-> IF burst <= 0 THEN 1 ELSE burst,
      remainingTime  |-> IF burst <= 0 THEN 1 ELSE burst,
      waitingTime    |-> 0,
      turnaroundTime |-> 0,
      responseTime   |-> Unset,
      startTime      |-> Unset,
      hasStarted     |-> FALSE ]

\* mutant: a reset that restores state and remaining time but keeps the metrics
ProcessReset_KeepMetrics(p) ==
    [ p EXCEPT !.state = "NEW",
               !.remainingTime = p.burstTime ]

\* mutant: a reset that does not restore the remaining time
ProcessReset_NoRemaining(p) ==
    [ p EXCEPT !.state = "NEW",
               !.waitingTime = 0,
               !.turnaroundTime = 0,
               !.responseTime = Unset,
               !.startTime = Unset,
               !.hasStarted = FALSE ]

\* Process::reset()
ProcessReset(p) ==
    [ p EXCEPT !.state = "NEW",
               !.remainingTime = p.burstTime,
               !.waitingTime = 0,
               !.turnaroundTime = 0,
               !.responseTime = Unset,
               !.startTime = Unset,
               !.hasStarted = FALSE ]

\* mutant: completion statistics without the floor on the waiting time
updateStatistics_NoFloor(p, completionTime) ==
    LET turnaround == completionTime - p.arrivalTime
        waiting == turnaround - p.burstTime
    IN [ p EXCEPT !.turnaroundTime = turnaround,
                  !.waitingTime = waiting,
                  !.responseTime = IF p.responseTime = -1
                                   THEN (IF p.startTime # -1
                                         THEN p.startTime - p.arrivalTime
                                         ELSE 0)
                                   ELSE p.responseTime,
                  !.state = "TERMINATED",
                  !.remainingTime = 0 ]

\* Process::updateStatistics(completionTime)
updateStatistics(p, completionTime) ==
    LET turnaround == completionTime - p.arrivalTime
        waiting == turnaround - p.burstTime
    IN [ p EXCEPT !.turnaroundTime = turnaround,
                  !.waitingTime = IF waiting < 0 THEN 0 ELSE waiting,
                  !.responseTime = IF p.responseTime = -1
                                   THEN (IF p.startTime # -1
                                         THEN p.startTime - p.arrivalTime
                                         ELSE 0)
                                   ELSE p.responseTime,
                  !.state = "TERMINATED",
                  !.remainingTime = 0 ]

\* -------------------------------------------------------------- Scheduler
\* mutant: a validation that does not look at the burst times
validateProcessSet_ArrivalOnly ==
    /\ processes # <<>>
    /\ \A i \in DOMAIN processes : proc[processes[i]].arrivalTime >= 0

\* Scheduler::validateProcessSet()
validateProcessSet ==
    /\ processes # <<>>
    /\ \A i \in DOMAIN processes :
          /\ proc[processes[i]].burstTime > 0
          /\ proc[processes[i]].arrivalTime >= 0

\* Scheduler::resetProcessStates()
resetProcessStates(pr) == [p \in DOMAIN pr |-> ProcessReset(pr[p])]

\* resetProcesses(), called first by every schedule(): puts every process
\* back in its initial state
resetProcesses(pr) == [p \in DOMAIN pr |-> ProcessReset(pr[p])]

\* Scheduler::allProcessesCompleted / the termination check of each loop
allCompleted(pr) == \A p \in DOMAIN pr : pr[p].state = "TERMINATED"

\* mutant: aging that also touches RUNNING and TERMINATED processes
updateWaitingTimes_AgeAll(pr) ==
    [p \in DOMAIN pr |->
        IF pr[p].state # "NEW"
        THEN [pr[p] EXCEPT !.waitingTime = @ + 1]
        ELSE pr[p]]

\* mutant: an aging step that charges the process holding the CPU
updateWaitingTimes_AgeRunning(pr) ==
    [p \in DOMAIN pr |->
        IF pr[p].state = "RUNNING"
        THEN [pr[p] EXCEPT !.waitingTime = @ + 1]
        ELSE pr[p]]

\* Scheduler::updateWaitingTimes()
updateWaitingTimes(pr) ==
    [p \in DOMAIN pr |->
        IF pr[p].state = "READY"
        THEN [pr[p] EXCEPT !.waitingTime = @ + 1]
        ELSE pr[p]]

\* mutant: an admission that does not test for the NEW state
arrivals_AnyState(ps, pr, now) ==
    SelectSeq(ps, LAMBDA p : pr[p].arrivalTime <= now)

\* mutant: an admission that looks one tick ahead
arrivals_Early(ps, pr, now) ==
    SelectSeq(ps, LAMBDA p : pr[p].state = "NEW" /\ pr[p].arrivalTime <= now + 1)

\* Scheduler::checkArrivals(): the processes it admits, in traversal order
arrivals(ps, pr, now) ==
    SelectSeq(ps, LAMBDA p : pr[p].state = "NEW" /\ pr[p].arrivalTime <= now)

\* Scheduler::calculateStatistics(): the sum of one metric over the set
sumWaiting == SumSeq(processes, [p \in Pids |-> proc[p].waitingTime])
sumTurnaround == SumSeq(processes, [p \in Pids |-> proc[p].turnaroundTime])
sumResponse == SumSeq(processes, [p \in Pids |-> proc[p].responseTime])

\* std::sort(processes, by arrivalTime): every ordering of the vector with
\* non-decreasing arrival times (std::sort does not keep equal elements in order)
SortByArrival(ps) ==
    { s \in [DOMAIN ps -> Range(ps)] :
        /\ \A i, j \in DOMAIN ps : i # j => s[i] # s[j]
        /\ \A i, j \in DOMAIN ps :
              i < j => ~(proc[s[j]].arrivalTime < proc[s[i]].arrivalTime) }

\* mutant: a dispatch that records start and response time on every dispatch
dispatchProcess_EveryTime(pr, p, now) ==
    [pr EXCEPT ![p] =
        [pr[p] EXCEPT !.state = "RUNNING",
                      !.startTime = now,
                      !.responseTime = now - pr[p].arrivalTime,
                      !.hasStarted = TRUE]]

\* mutant: a response time measured from time 0 instead of from the arrival
dispatchProcess_ResponseFromZero(pr, p, now) ==
    [pr EXCEPT ![p] =
        IF ~pr[p].hasStarted
        THEN [pr[p] EXCEPT !.state = "RUNNING",
                           !.startTime = now,
                           !.responseTime = now,
                           !.hasStarted = TRUE]
        ELSE [pr[p] EXCEPT !.state = "RUNNING"]]

\* the dispatch bookkeeping written inline in every schedule(): state RUNNING,
\* and start / response time on the first execution only
dispatchProcess(pr, p, now) ==
    [pr EXCEPT ![p] =
        IF ~pr[p].hasStarted
        THEN [pr[p] EXCEPT !.state = "RUNNING",
                           !.startTime = now,
                           !.responseTime = now - pr[p].arrivalTime,
                           !.hasStarted = TRUE]
        ELSE [pr[p] EXCEPT !.state = "RUNNING"]]

\* mutant: a completion step that takes the clock before the unit was executed
completeProcess_BeforeTick(pr, p, now) ==
    [pr EXCEPT ![p] =
        [pr[p] EXCEPT !.state = "TERMINATED",
                      !.turnaroundTime = now - pr[p].arrivalTime,
                      !.waitingTime = (now - pr[p].arrivalTime) - pr[p].burstTime]]

\* the completion step written inline in every schedule()
completeProcess(pr, p, now) ==
    [pr EXCEPT ![p] =
        [pr[p] EXCEPT !.state = "TERMINATED",
                      !.turnaroundTime = now + 1 - pr[p].arrivalTime,
                      !.waitingTime = (now + 1 - pr[p].arrivalTime) - pr[p].burstTime]]

\* mutant: a scan that compares with <= and so keeps the last of the shortest jobs
RECURSIVE ShortestJobScan_LastMin(_, _, _)
ShortestJobScan_LastMin(q, shortestJob, tempQueue) ==
    IF q = <<>>
    THEN [job |-> shortestJob, rest |-> tempQueue]
    ELSE LET process == Head(q) IN
         IF shortestJob = NoProcess
            \/ proc[process].burstTime <= proc[shortestJob].burstTime
         THEN ShortestJobScan_LastMin(Tail(q), process,
                                      IF shortestJob # NoProcess
                                      THEN Append(tempQueue, shortestJob)
                                      ELSE tempQueue)
         ELSE ShortestJobScan_LastMin(Tail(q), shortestJob, Append(tempQueue, process))

\* mutant: a scan with the comparison turned round, which keeps the longest job
RECURSIVE ShortestJobScan_Longest(_, _, _)
ShortestJobScan_Longest(q, shortestJob, tempQueue) ==
    IF q = <<>>
    THEN [job |-> shortestJob, rest |-> tempQueue]
    ELSE LET process == Head(q) IN
         IF shortestJob = NoProcess
            \/ proc[process].burstTime > proc[shortestJob].burstTime
         THEN ShortestJobScan_Longest(Tail(q), process,
                                      IF shortestJob # NoProcess
                                      THEN Append(tempQueue, shortestJob)
                                      ELSE tempQueue)
         ELSE ShortestJobScan_Longest(Tail(q), shortestJob, Append(tempQueue, process))

\* SJFScheduler::schedule(): the scan of the ready queue for the shortest job
RECURSIVE ShortestJobScan(_, _, _)
ShortestJobScan(q, shortestJob, tempQueue) ==
    IF q = <<>>
    THEN [job |-> shortestJob, rest |-> tempQueue]
    ELSE LET process == Head(q) IN
         IF shortestJob = NoProcess
            \/ proc[process].burstTime < proc[shortestJob].burstTime
         THEN ShortestJobScan(Tail(q), process,
                              IF shortestJob # NoProcess
                              THEN Append(tempQueue, shortestJob)
                              ELSE tempQueue)
         ELSE ShortestJobScan(Tail(q), shortestJob, Append(tempQueue, process))

\* mutant: a scan that takes the larger priority value for the more urgent one
RECURSIVE HighestPriorityScan_Inverted(_, _, _)
HighestPriorityScan_Inverted(q, highestPriorityProcess, tempQueue) ==
    IF q = <<>>
    THEN [job |-> highestPriorityProcess, rest |-> tempQueue]
    ELSE LET process == Head(q) IN
         IF highestPriorityProcess = NoProcess
            \/ proc[process].priority > proc[highestPriorityProcess].priority
         THEN HighestPriorityScan_Inverted(Tail(q), process,
                                  IF highestPriorityProcess # NoProcess
                                  THEN Append(tempQueue, highestPriorityProcess)
                                  ELSE tempQueue)
         ELSE HighestPriorityScan_Inverted(Tail(q), highestPriorityProcess,
                                  Append(tempQueue, process))

\* PriorityScheduler::schedule(): the scan for the highest priority process
RECURSIVE HighestPriorityScan(_, _, _)
HighestPriorityScan(q, highestPriorityProcess, tempQueue) ==
    IF q = <<>>
    THEN [job |-> highestPriorityProcess, rest |-> tempQueue]
    ELSE LET process == Head(q) IN
         IF highestPriorityProcess = NoProcess
            \/ proc[process].priority < proc[highestPriorityProcess].priority
         THEN HighestPriorityScan(Tail(q), process,
                                  IF highestPriorityProcess # NoProcess
                                  THEN Append(tempQueue, highestPriorityProcess)
                                  ELSE tempQueue)
         ELSE HighestPriorityScan(Tail(q), highestPriorityProcess,
                                  Append(tempQueue, process))

\* what a run leaves behind for its caller: per-process metrics and elapsed time
Snapshot ==
    [ metrics |-> [p \in Pids |-> << proc[p].startTime, proc[p].waitingTime,
                                     proc[p].turnaroundTime, proc[p].responseTime >>],
      total   |-> currentTime ]

\* ------------------------------------------------------------------- Init
\* the processes a caller can construct within the bounds; the priority
\* argument is left at its default (MEDIUM) except for the Priority scheduler
Constructed(pol) ==
    { NewProcess(a, b, pr) :
        a \in 0..MaxArrival, b \in 1..MaxBurst,
        pr \in IF pol = "Priority" THEN Priorities ELSE {MEDIUM} }

\* a scheduler after construction and registration of 0..MaxProcs processes
\* whose bursts add up to at most MaxWork
Init ==
    /\ policy \in Policies
    /\ timeQuantum \in IF policy = "RR" THEN 1..MaxQuantum ELSE {0}
    /\ quantumRemaining = timeQuantum
    /\ \E n \in 0..MaxProcs :
          /\ processes = [i \in 1..n |-> i]
          /\ proc \in [1..n -> Constructed(policy)]
          /\ SumSeq(processes, [p \in 1..n |-> proc[p].burstTime]) <= MaxWork
          /\ totalProcesses = n
          /\ pid = [p \in 1..n |-> p]
          /\ nextPID = n + 1
          /\ readyWait = [p \in 1..n |-> 0]
          /\ readyPeers = [p \in 1..n |-> 0]
    /\ readyQueue = <<>>
    /\ currentProcess = NoProcess
    /\ currentTime = 0
    /\ completedProcesses = 0
    /\ totalWaitingTime = 0
    /\ totalTurnaroundTime = 0
    /\ totalResponseTime = 0
    /\ pc = "idle"
    /\ runs = 0
    /\ prevRun = Snapshot
    /\ sliceRun = 0

\* ---------------------------------------------------------------- actions
\* Scheduler::runSimulation() up to the first loop iteration: validation,
\* reset(), and the preamble of schedule()
StartRun ==
    /\ validateProcessSet
    /\ currentTime' = 0
    /\ currentProcess' = NoProcess
    /\ readyQueue' = <<>>
    /\ completedProcesses' = 0
    /\ totalWaitingTime' = 0
    /\ totalTurnaroundTime' = 0
    /\ totalResponseTime' = 0
    /\ proc' = resetProcesses(resetProcessStates(proc))
    /\ quantumRemaining' = IF policy = "RR" THEN timeQuantum ELSE quantumRemaining
    /\ processes' \in IF policy = "FCFS" THEN SortByArrival(processes) ELSE {processes}
    /\ pc' = "arrive"
    /\ runs' = runs + 1
    /\ prevRun' = Snapshot
    /\ sliceRun' = 0
    /\ readyWait' = [p \in Pids |-> 0]
    /\ readyPeers' = [p \in Pids |-> 0]
    /\ UNCHANGED <<policy, timeQuantum, nextPID, pid, totalProcesses>>

\* the first run on a freshly built scheduler
RunSimulation ==
    /\ pc = "idle"
    /\ StartRun

\* runSimulation() on an invalid process set: returns false before reset()
RunSimulationFail ==
    /\ pc = "idle"
    /\ ~validateProcessSet
    /\ pc' = "failed"
    /\ UNCHANGED <<engineVars, policy, timeQuantum, nextPID, pid, totalProcesses, histVars>>

\* a further run on the state the previous run left behind
RunAgain ==
    /\ pc = "done"
    /\ runs < MaxRuns
    /\ StartRun

\* step 1 of a loop iteration: Scheduler::checkArrivals()
CheckArrivals ==
    /\ pc = "arrive"
    /\ LET admitted == arrivals(processes, proc, currentTime) IN
          /\ proc' = [p \in Pids |->
                        IF p \in Range(admitted)
                        THEN [proc[p] EXCEPT !.state = "READY"]
                        ELSE proc[p]]
          /\ readyQueue' = readyQueue \o admitted
    /\ pc' = "dispatch"
    /\ UNCHANGED <<processes, currentProcess, currentTime, policy, timeQuantum, nextPID, pid,
                   quantumRemaining, totalProcesses, completedProcesses,
                   totalWaitingTime, totalTurnaroundTime, totalResponseTime,
                   histVars>>

\* mutant: a dispatch that takes the most recent arrival (the tail of the queue)
DispatchFCFS_Lifo ==
    /\ pc = "dispatch"
    /\ policy = "FCFS"
    /\ IF currentProcess = NoProcess /\ readyQueue # <<>>
       THEN /\ currentProcess' = readyQueue[Len(readyQueue)]
            /\ readyQueue' = SubSeq(readyQueue, 1, Len(readyQueue) - 1)
            /\ proc' = dispatchProcess(proc, readyQueue[Len(readyQueue)], currentTime)
            /\ sliceRun' = 0
       ELSE UNCHANGED <<currentProcess, readyQueue, proc, sliceRun>>
    /\ pc' = "execute"
    /\ UNCHANGED <<processes, currentTime, policy, timeQuantum, nextPID, pid, quantumRemaining,
                   totalProcesses, completedProcesses, totalWaitingTime,
                   totalTurnaroundTime, totalResponseTime,
                   runs, prevRun, readyWait, readyPeers>>

\* mutant: a dispatch that reads the head of the queue without removing it
DispatchFCFS_NoPop ==
    /\ pc = "dispatch"
    /\ policy = "FCFS"
    /\ IF currentProcess = NoProcess /\ readyQueue # <<>>
       THEN /\ currentProcess' = Head(readyQueue)
            /\ readyQueue' = readyQueue
            /\ proc' = dispatchProcess(proc, Head(readyQueue), currentTime)
            /\ sliceRun' = 0
       ELSE UNCHANGED <<currentProcess, readyQueue, proc, sliceRun>>
    /\ pc' = "execute"
    /\ UNCHANGED <<processes, currentTime, policy, timeQuantum, nextPID, pid, quantumRemaining,
                   totalProcesses, completedProcesses, totalWaitingTime,
                   totalTurnaroundTime, totalResponseTime,
                   runs, prevRun, readyWait, readyPeers>>

\* step 2 under FCFS: if the CPU is idle take the head of the ready queue
DispatchFCFS ==
    /\ pc = "dispatch"
    /\ policy = "FCFS"
    /\ IF currentProcess = NoProcess /\ readyQueue # <<>>
       THEN /\ currentProcess' = Head(readyQueue)
            /\ readyQueue' = Tail(readyQueue)
            /\ proc' = dispatchProcess(proc, Head(readyQueue), currentTime)
            /\ sliceRun' = 0
       ELSE UNCHANGED <<currentProcess, readyQueue, proc, sliceRun>>
    /\ pc' = "execute"
    /\ UNCHANGED <<processes, currentTime, policy, timeQuantum, nextPID, pid, quantumRemaining,
                   totalProcesses, completedProcesses, totalWaitingTime,
                   totalTurnaroundTime, totalResponseTime,
                   runs, prevRun, readyWait, readyPeers>>

\* mutant: a dispatch that does not test for an idle CPU: the running process
\* goes back to the queue and the shortest job of the queue takes over
DispatchSJF_Preemptive ==
    /\ pc = "dispatch"
    /\ policy = "SJF"
    /\ IF readyQueue # <<>>
       THEN LET q1 == IF currentProcess # NoProcess
                      THEN Append(readyQueue, currentProcess) ELSE readyQueue
                pr1 == IF currentProcess # NoProcess
                       THEN [proc EXCEPT ![currentProcess].state = "READY"] ELSE proc
                scan == ShortestJobScan(q1, NoProcess, <<>>)
            IN /\ currentProcess' = scan.job
               /\ readyQueue' = scan.rest
               /\ proc' = dispatchProcess(pr1, scan.job, currentTime)
               /\ sliceRun' = 0
       ELSE UNCHANGED <<currentProcess, readyQueue, proc, sliceRun>>
    /\ pc' = "execute"
    /\ UNCHANGED <<processes, currentTime, policy, timeQuantum, nextPID, pid, quantumRemaining,
                   totalProcesses, completedProcesses, totalWaitingTime,
                   totalTurnaroundTime, totalResponseTime,
                   runs, prevRun, readyWait, readyPeers>>

\* step 2 under SJF: if the CPU is idle take the shortest job of the ready queue
DispatchSJF ==
    /\ pc = "dispatch"
    /\ policy = "SJF"
    /\ IF currentProcess = NoProcess /\ readyQueue # <<>>
       THEN LET scan == ShortestJobScan(readyQueue, NoProcess, <<>>) IN
            /\ currentProcess' = scan.job
            /\ readyQueue' = scan.rest
            /\ proc' = dispatchProcess(proc, scan.job, currentTime)
            /\ sliceRun' = 0
       ELSE UNCHANGED <<currentProcess, readyQueue, proc, sliceRun>>
    /\ pc' = "execute"
    /\ UNCHANGED <<processes, currentTime, policy, timeQuantum, nextPID, pid, quantumRemaining,
                   totalProcesses, completedProcesses, totalWaitingTime,
                   totalTurnaroundTime, totalResponseTime,
                   runs, prevRun, readyWait, readyPeers>>

\* mutant: a dispatch that does not test for an idle CPU: the running process
\* goes back to the queue and the most urgent process of the queue takes over
DispatchPriority_Preemptive ==
    /\ pc = "dispatch"
    /\ policy = "Priority"
    /\ IF readyQueue # <<>>
       THEN LET q1 == IF currentProcess # NoProcess
                      THEN Append(readyQueue, currentProcess) ELSE readyQueue
                pr1 == IF currentProcess # NoProcess
                       THEN [proc EXCEPT ![currentProcess].state = "READY"] ELSE proc
                scan == HighestPriorityScan(q1, NoProcess, <<>>)
            IN /\ currentProcess' = scan.job
               /\ readyQueue' = scan.rest
               /\ proc' = dispatchProcess(pr1, scan.job, currentTime)
               /\ sliceRun' = 0
       ELSE UNCHANGED <<currentProcess, readyQueue, proc, sliceRun>>
    /\ pc' = "execute"
    /\ UNCHANGED <<processes, currentTime, policy, timeQuantum, nextPID, pid, quantumRemaining,
                   totalProcesses, completedProcesses, totalWaitingTime,
                   totalTurnaroundTime, totalResponseTime,
                   runs, prevRun, readyWait, readyPeers>>

\* step 2 under Priority: if the CPU is idle take the most urgent process
DispatchPriority ==
    /\ pc = "dispatch"
    /\ policy = "Priority"
    /\ IF currentProcess = NoProcess /\ readyQueue # <<>>
       THEN LET scan == HighestPriorityScan(readyQueue, NoProcess, <<>>) IN
            /\ currentProcess' = scan.job
            /\ readyQueue' = scan.rest
            /\ proc' = dispatchProcess(proc, scan.job, currentTime)
            /\ sliceRun' = 0
       ELSE UNCHANGED <<currentProcess, readyQueue, proc, sliceRun>>
    /\ pc' = "execute"
    /\ UNCHANGED <<processes, currentTime, policy, timeQuantum, nextPID, pid, quantumRemaining,
                   totalProcesses, completedProcesses, totalWaitingTime,
                   totalTurnaroundTime, totalResponseTime,
                   runs, prevRun, readyWait, readyPeers>>

\* mutant: a switch test that ignores the quantum and waits for an idle CPU
switchNeeded_IdleOnly ==
    currentProcess = NoProcess /\ readyQueue # <<>>

\* Round Robin: the condition under which the loop switches processes
switchNeeded ==
    (currentProcess = NoProcess \/ quantumRemaining = 0) /\ readyQueue # <<>>

\* mutant: a switch that forgets to put the preempted process back in the queue
DispatchRR_DropPreempted ==
    /\ pc = "dispatch"
    /\ policy = "RR"
    /\ IF switchNeeded
       THEN LET preempt == /\ currentProcess # NoProcess
                           /\ quantumRemaining = 0
                           /\ proc[currentProcess].remainingTime > 0
                pr1 == IF preempt
                       THEN [proc EXCEPT ![currentProcess].state = "READY"]
                       ELSE proc
            IN /\ currentProcess' = Head(readyQueue)
               /\ readyQueue' = Tail(readyQueue)
               /\ proc' = dispatchProcess(pr1, Head(readyQueue), currentTime)
               /\ quantumRemaining' = timeQuantum
               /\ sliceRun' = 0
       ELSE UNCHANGED <<currentProcess, readyQueue, proc, quantumRemaining, sliceRun>>
    /\ pc' = "execute"
    /\ UNCHANGED <<processes, currentTime, policy, timeQuantum, nextPID, pid,
                   totalProcesses, completedProcesses, totalWaitingTime,
                   totalTurnaroundTime, totalResponseTime,
                   runs, prevRun, readyWait, readyPeers>>

\* mutant: a preemption that queues the running process but leaves it RUNNING
DispatchRR_StillRunning ==
    /\ pc = "dispatch"
    /\ policy = "RR"
    /\ IF switchNeeded
       THEN LET preempt == /\ currentProcess # NoProcess
                           /\ quantumRemaining = 0
                           /\ proc[currentProcess].remainingTime > 0
                q1 == IF preempt THEN Append(readyQueue, currentProcess)
                      ELSE readyQueue
            IN /\ currentProcess' = Head(q1)
               /\ readyQueue' = Tail(q1)
               /\ proc' = dispatchProcess(proc, Head(q1), currentTime)
               /\ quantumRemaining' = timeQuantum
               /\ sliceRun' = 0
       ELSE UNCHANGED <<currentProcess, readyQueue, proc, quantumRemaining, sliceRun>>
    /\ pc' = "execute"
    /\ UNCHANGED <<processes, currentTime, policy, timeQuantum, nextPID, pid,
                   totalProcesses, completedProcesses, totalWaitingTime,
                   totalTurnaroundTime, totalResponseTime,
                   runs, prevRun, readyWait, readyPeers>>

\* mutant: a preemption that only queues the running process and leaves the
\* CPU empty for the tick
DispatchRR_SwitchTick ==
    /\ pc = "dispatch"
    /\ policy = "RR"
    /\ IF switchNeeded
       THEN LET preempt == /\ currentProcess # NoProcess
                           /\ quantumRemaining = 0
                           /\ proc[currentProcess].remainingTime > 0
            IN IF preempt
               THEN /\ currentProcess' = NoProcess
                    /\ readyQueue' = Append(readyQueue, currentProcess)
                    /\ proc' = [proc EXCEPT ![currentProcess].state = "READY"]
                    /\ quantumRemaining' = timeQuantum
                    /\ sliceRun' = 0
               ELSE /\ currentProcess' = Head(readyQueue)
                    /\ readyQueue' = Tail(readyQueue)
                    /\ proc' = dispatchProcess(proc, Head(readyQueue), currentTime)
                    /\ quantumRemaining' = timeQuantum
                    /\ sliceRun' = 0
       ELSE UNCHANGED <<currentProcess, readyQueue, proc, quantumRemaining, sliceRun>>
    /\ pc' = "execute"
    /\ UNCHANGED <<processes, currentTime, policy, timeQuantum, nextPID, pid,
                   totalProcesses, completedProcesses, totalWaitingTime,
                   totalTurnaroundTime, totalResponseTime,
                   runs, prevRun, readyWait, readyPeers>>

\* mutant: a switch that does not reload the quantum counter
DispatchRR_NoQuantumReset ==
    /\ pc = "dispatch"
    /\ policy = "RR"
    /\ IF switchNeeded
       THEN LET preempt == /\ currentProcess # NoProcess
                           /\ quantumRemaining = 0
                           /\ proc[currentProcess].remainingTime > 0
                q1 == IF preempt THEN Append(readyQueue, currentProcess)
                      ELSE readyQueue
                pr1 == IF preempt
                       THEN [proc EXCEPT ![currentProcess].state = "READY"]
                       ELSE proc
            IN /\ currentProcess' = Head(q1)
               /\ readyQueue' = Tail(q1)
               /\ proc' = dispatchProcess(pr1, Head(q1), currentTime)
               /\ quantumRemaining' = quantumRemaining
               /\ sliceRun' = 0
       ELSE UNCHANGED <<currentProcess, readyQueue, proc, quantumRemaining, sliceRun>>
    /\ pc' = "execute"
    /\ UNCHANGED <<processes, currentTime, policy, timeQuantum, nextPID, pid,
                   totalProcesses, completedProcesses, totalWaitingTime,
                   totalTurnaroundTime, totalResponseTime,
                   runs, prevRun, readyWait, readyPeers>>

\* mutant: a switch that queues the preempted process before the arrivals of
\* the tick
DispatchRR_PreemptedFirst ==
    /\ pc = "dispatch"
    /\ policy = "RR"
    /\ IF switchNeeded
       THEN LET preempt == /\ currentProcess # NoProcess
                           /\ quantumRemaining = 0
                           /\ proc[currentProcess].remainingTime > 0
                earlier == SelectSeq(readyQueue,
                                     LAMBDA q : proc[q].arrivalTime < currentTime)
                arrived == SelectSeq(readyQueue,
                                     LAMBDA q : proc[q].arrivalTime >= currentTime)
                q1 == IF preempt THEN earlier \o <<currentProcess>> \o arrived
                      ELSE readyQueue
                pr1 == IF preempt
                       THEN [proc EXCEPT ![currentProcess].state = "READY"]
                       ELSE proc
            IN /\ currentProcess' = Head(q1)
               /\ readyQueue' = Tail(q1)
               /\ proc' = dispatchProcess(pr1, Head(q1), currentTime)
               /\ quantumRemaining' = timeQuantum
               /\ sliceRun' = 0
       ELSE UNCHANGED <<currentProcess, readyQueue, proc, quantumRemaining, sliceRun>>
    /\ pc' = "execute"
    /\ UNCHANGED <<processes, currentTime, policy, timeQuantum, nextPID, pid,
                   totalProcesses, completedProcesses, totalWaitingTime,
                   totalTurnaroundTime, totalResponseTime,
                   runs, prevRun, readyWait, readyPeers>>

\* step 2 under Round Robin: switch when the CPU is idle or the quantum is
\* used up; a running process with work left goes to the tail of the queue
DispatchRR ==
    /\ pc = "dispatch"
    /\ policy = "RR"
    /\ IF switchNeeded
       THEN LET preempt == /\ currentProcess # NoProcess
                           /\ quantumRemaining = 0
                           /\ proc[currentProcess].remainingTime > 0
                q1 == IF preempt THEN Append(readyQueue, currentProcess)
                      ELSE readyQueue
                pr1 == IF preempt
                       THEN [proc EXCEPT ![currentProcess].state = "READY"]
                       ELSE proc
            IN /\ currentProcess' = Head(q1)
               /\ readyQueue' = Tail(q1)
               /\ proc' = dispatchProcess(pr1, Head(q1), currentTime)
               /\ quantumRemaining' = timeQuantum
               /\ sliceRun' = 0
       ELSE UNCHANGED <<currentProcess, readyQueue, proc, quantumRemaining, sliceRun>>
    /\ pc' = "execute"
    /\ UNCHANGED <<processes, currentTime, policy, timeQuantum, nextPID, pid,
                   totalProcesses, completedProcesses, totalWaitingTime,
                   totalTurnaroundTime, totalResponseTime,
                   runs, prevRun, readyWait, readyPeers>>

\* number of processes that are READY or RUNNING
concurrentlyReady == Cardinality({p \in Pids : proc[p].state \in {"READY", "RUNNING"}})

\* mutant: a completion that leaves the finished process on the CPU
Execute_KeepsFinished ==
    /\ pc = "execute"
    /\ IF currentProcess # NoProcess
       THEN LET p == currentProcess
                left == proc[p].remainingTime - 1
                pr1 == [proc EXCEPT ![p].remainingTime = left]
            IN IF left = 0
               THEN /\ proc' = completeProcess(pr1, p, currentTime)
                    /\ quantumRemaining' = IF policy = "RR" THEN timeQuantum
                                           ELSE quantumRemaining
                    /\ sliceRun' = 0
                    /\ UNCHANGED currentProcess
               ELSE /\ proc' = pr1
                    /\ quantumRemaining' = IF policy = "RR" THEN quantumRemaining - 1
                                           ELSE quantumRemaining
                    /\ sliceRun' = sliceRun + 1
                    /\ UNCHANGED currentProcess
       ELSE UNCHANGED <<proc, currentProcess, quantumRemaining, sliceRun>>
    /\ readyPeers' = [p \in Pids |->
                        IF proc[p].state = "READY"
                        THEN MaxOf(readyPeers[p], concurrentlyReady)
                        ELSE 0]
    /\ pc' = "age"
    /\ UNCHANGED <<processes, readyQueue, currentTime, policy, timeQuantum, nextPID, pid,
                   totalProcesses, completedProcesses, totalWaitingTime,
                   totalTurnaroundTime, totalResponseTime,
                   runs, prevRun, readyWait>>

\* mutant: a process does not execute in the tick of its first dispatch
Execute_DispatchTickLost ==
    /\ pc = "execute"
    /\ IF /\ currentProcess # NoProcess
          /\ ~(/\ proc[currentProcess].startTime = currentTime
               /\ proc[currentProcess].remainingTime = proc[currentProcess].burstTime)
       THEN LET p == currentProcess
                left == proc[p].remainingTime - 1
                pr1 == [proc EXCEPT ![p].remainingTime = left]
            IN IF left = 0
               THEN /\ proc' = completeProcess(pr1, p, currentTime)
                    /\ currentProcess' = NoProcess
                    /\ quantumRemaining' = IF policy = "RR" THEN timeQuantum
                                           ELSE quantumRemaining
                    /\ sliceRun' = 0
               ELSE /\ proc' = pr1
                    /\ quantumRemaining' = IF policy = "RR" THEN quantumRemaining - 1
                                           ELSE quantumRemaining
                    /\ sliceRun' = sliceRun + 1
                    /\ UNCHANGED currentProcess
       ELSE UNCHANGED <<proc, currentProcess, quantumRemaining, sliceRun>>
    /\ readyPeers' = [p \in Pids |->
                        IF proc[p].state = "READY"
                        THEN MaxOf(readyPeers[p], concurrentlyReady)
                        ELSE 0]
    /\ pc' = "age"
    /\ UNCHANGED <<processes, readyQueue, currentTime, policy, timeQuantum, nextPID, pid,
                   totalProcesses, completedProcesses, totalWaitingTime,
                   totalTurnaroundTime, totalResponseTime,
                   runs, prevRun, readyWait>>

\* step 3: the current process executes one unit and completes at 0
Execute ==
    /\ pc = "execute"
    /\ IF currentProcess # NoProcess
       THEN LET p == currentProcess
                left == proc[p].remainingTime - 1
                pr1 == [proc EXCEPT ![p].remainingTime = left]
            IN IF left = 0
               THEN /\ proc' = completeProcess(pr1, p, currentTime)
                    /\ currentProcess' = NoProcess
                    /\ quantumRemaining' = IF policy = "RR" THEN timeQuantum
                                           ELSE quantumRemaining
                    /\ sliceRun' = 0
               ELSE /\ proc' = pr1
                    /\ quantumRemaining' = IF policy = "RR" THEN quantumRemaining - 1
                                           ELSE quantumRemaining
                    /\ sliceRun' = sliceRun + 1
                    /\ UNCHANGED currentProcess
       ELSE UNCHANGED <<proc, currentProcess, quantumRemaining, sliceRun>>
    /\ readyPeers' = [p \in Pids |->
                        IF proc[p].state = "READY"
                        THEN MaxOf(readyPeers[p], concurrentlyReady)
                        ELSE 0]
    /\ pc' = "age"
    /\ UNCHANGED <<processes, readyQueue, currentTime, policy, timeQuantum, nextPID, pid,
                   totalProcesses, completedProcesses, totalWaitingTime,
                   totalTurnaroundTime, totalResponseTime,
                   runs, prevRun, readyWait>>

\* Scheduler::completeProcessExecution(process) on the process records:
\* TERMINATED, remainingTime 0 and Process::updateStatistics(currentTime)
completeProcessExecution(pr, p, now) ==
    [pr EXCEPT ![p] =
        updateStatistics([pr[p] EXCEPT !.state = "TERMINATED", !.remainingTime = 0], now)]

\* Scheduler::executeTimeSlice() as the execute step of a loop iteration: one
\* unit of the current process, and completeProcessExecution() when nothing
\* is left; the helper does not touch the quantum counter
ExecuteTimeSlice ==
    /\ pc = "execute"
    /\ IF currentProcess # NoProcess
       THEN LET p == currentProcess
                left == proc[p].remainingTime - 1
                pr1 == [proc EXCEPT ![p].remainingTime = left]
            IN IF left <= 0
               THEN /\ proc' = completeProcessExecution(pr1, p, currentTime)
                    /\ completedProcesses' = completedProcesses + 1
                    /\ currentProcess' = NoProcess
                    /\ sliceRun' = 0
               ELSE /\ proc' = pr1
                    /\ sliceRun' = sliceRun + 1
                    /\ UNCHANGED <<currentProcess, completedProcesses>>
       ELSE UNCHANGED <<proc, currentProcess, completedProcesses, sliceRun>>
    /\ readyPeers' = [p \in Pids |->
                        IF proc[p].state = "READY"
                        THEN MaxOf(readyPeers[p], concurrentlyReady)
                        ELSE 0]
    /\ pc' = "age"
    /\ UNCHANGED <<processes, readyQueue, currentTime, policy, timeQuantum, nextPID, pid,
                   quantumRemaining, totalProcesses, totalWaitingTime,
                   totalTurnaroundTime, totalResponseTime,
                   runs, prevRun, readyWait>>

\* mutant: a loop that leaves on the termination check before advancing the clock
Tick_ExitBeforeAdvance ==
    /\ pc = "age"
    /\ currentTime < ClockCap
    /\ proc' = updateWaitingTimes(proc)
    /\ currentTime' = IF allCompleted(proc) THEN currentTime ELSE currentTime + 1
    /\ pc' = IF allCompleted(proc) THEN "finish" ELSE "arrive"
    /\ readyWait' = [p \in Pids |->
                        IF proc[p].state = "READY" THEN readyWait[p] + 1 ELSE 0]
    /\ UNCHANGED <<processes, readyQueue, currentProcess, policy, timeQuantum, nextPID, pid,
                   quantumRemaining, totalProcesses, completedProcesses,
                   totalWaitingTime, totalTurnaroundTime, totalResponseTime,
                   runs, prevRun, sliceRun, readyPeers>>

\* step 4: updateWaitingTimes(), currentTime++, and the termination check
Tick ==
    /\ pc = "age"
    /\ currentTime < ClockCap
    /\ proc' = updateWaitingTimes(proc)
    /\ currentTime' = currentTime + 1
    /\ pc' = IF allCompleted(proc) THEN "finish" ELSE "arrive"
    /\ readyWait' = [p \in Pids |->
                        IF proc[p].state = "READY" THEN readyWait[p] + 1 ELSE 0]
    /\ UNCHANGED <<processes, readyQueue, currentProcess, policy, timeQuantum, nextPID, pid,
                   quantumRemaining, totalProcesses, completedProcesses,
                   totalWaitingTime, totalTurnaroundTime, totalResponseTime,
                   runs, prevRun, sliceRun, readyPeers>>

\* Scheduler::getAverageWaitingTime / TurnaroundTime / ResponseTime: the
\* quotient total / totalProcesses as the fraction << numerator, denominator >>,
\* and 0 (<< 0, 1 >>) when totalProcesses is 0
getAverageWaitingTime ==
    IF totalProcesses > 0 THEN << totalWaitingTime, totalProcesses >> ELSE << 0, 1 >>
getAverageTurnaroundTime ==
    IF totalProcesses > 0 THEN << totalTurnaroundTime, totalProcesses >> ELSE << 0, 1 >>
getAverageResponseTime ==
    IF totalProcesses > 0 THEN << totalResponseTime, totalProcesses >> ELSE << 0, 1 >>

\* mutant: statistics that leave out the response times
Finish_NoResponse ==
    /\ pc = "finish"
    /\ totalWaitingTime' = sumWaiting
    /\ totalTurnaroundTime' = sumTurnaround
    /\ totalResponseTime' = 0
    /\ pc' = "done"
    /\ UNCHANGED <<processes, proc, readyQueue, currentProcess, currentTime, policy,
                   timeQuantum, nextPID, pid, quantumRemaining, totalProcesses, completedProcesses,
                   histVars>>

\* runSimulation() after schedule() returned: calculateStatistics()
Finish ==
    /\ pc = "finish"
    /\ totalWaitingTime' = sumWaiting
    /\ totalTurnaroundTime' = sumTurnaround
    /\ totalResponseTime' = sumResponse
    /\ pc' = "done"
    /\ UNCHANGED <<processes, proc, readyQueue, currentProcess, currentTime, policy,
                   timeQuantum, nextPID, pid, quantumRemaining, totalProcesses, completedProcesses,
                   histVars>>

Loop ==
    \/ CheckArrivals
    \/ DispatchFCFS
    \/ DispatchSJF
    \/ DispatchRR
    \/ DispatchPriority
    \/ Execute
    \/ Tick
    \/ Finish

Next ==
    \/ RunSimulation
    \/ RunSimulationFail
    \/ Loop

\* one run of each scheduler
Spec == Init /\ [][Next]_vars

\* one run in which the execute step of an iteration is either the one
\* written inline in schedule() or the engine's executeTimeSlice()
NextHelper ==
    \/ Next
    \/ ExecuteTimeSlice

SpecHelper == Init /\ [][NextHelper]_vars

\* one run, with the loop always taking its next step
FairSpec == Init /\ [][Next]_vars /\ WF_vars(Next)

NextRerun ==
    \/ Next
    \/ RunAgain

\* repeated runs on the same scheduler
SpecRerun == Init /\ [][NextRerun]_vars

\* demonstrateScheduling(): after the FCFS scheduler, the SJF scheduler is
\* built, fresh copies of the same processes (same arrival, burst, priority)
\* are registered in the original order, and it is run
DemonstrateNext ==
    /\ pc = "done"
    /\ policy = "FCFS"
    /\ runs = 1
    /\ policy' = "SJF"
    /\ processes' = [i \in 1..Len(processes) |-> i]
    /\ proc' = [p \in Pids |->
                  NewProcess(proc[p].arrivalTime, proc[p].burstTime, proc[p].priority)]
    /\ readyQueue' = <<>>
    /\ currentProcess' = NoProcess
    /\ currentTime' = 0
    /\ completedProcesses' = 0
    /\ totalWaitingTime' = 0
    /\ totalTurnaroundTime' = 0
    /\ totalResponseTime' = 0
    /\ pc' = "arrive"
    /\ runs' = runs + 1
    /\ prevRun' = Snapshot
    /\ sliceRun' = 0
    /\ readyWait' = [p \in Pids |-> 0]
    /\ readyPeers' = [p \in Pids |-> 0]
    /\ pid' = [p \in Pids |-> nextPID + p - 1]
    /\ nextPID' = nextPID + Len(processes)
    /\ UNCHANGED <<timeQuantum, quantumRemaining, totalProcesses>>

NextCompare ==
    \/ Next
    \/ DemonstrateNext

\* the same process set run by the FCFS scheduler and then by the SJF scheduler
SpecCompare == Init /\ [][NextCompare]_vars

\* a Round Robin scheduler with two processes that both arrive at 0, the first
\* with a burst of up to MaxBurstRR, the run fitting under the clock cap
InitRoundRobin ==
    /\ policy = "RR"
    /\ timeQuantum \in 1..MaxQuantum
    /\ quantumRemaining = timeQuantum
    /\ processes = <<1, 2>>
    /\ \E b1 \in 1..MaxBurstRR, b2 \in 1..MaxBurst :
          /\ b1 + b2 <= ClockCap
          /\ proc = [p \in {1, 2} |-> NewProcess(0, IF p = 1 THEN b1 ELSE b2, MEDIUM)]
    /\ totalProcesses = 2
    /\ pid = [p \in {1, 2} |-> p]
    /\ nextPID = 3
    /\ readyWait = [p \in {1, 2} |-> 0]
    /\ readyPeers = [p \in {1, 2} |-> 0]
    /\ readyQueue = <<>>
    /\ currentProcess = NoProcess
    /\ currentTime = 0
    /\ completedProcesses = 0
    /\ totalWaitingTime = 0
    /\ totalTurnaroundTime = 0
    /\ totalResponseTime = 0
    /\ pc = "idle"
    /\ runs = 0
    /\ prevRun = Snapshot
    /\ sliceRun = 0

NextRoundRobin ==
    \/ RunSimulation
    \/ CheckArrivals
    \/ DispatchRR
    \/ Execute
    \/ Tick
    \/ Finish

\* one Round Robin run of two processes registered together
SpecRoundRobin == InitRoundRobin /\ [][NextRoundRobin]_vars

\* the processes a caller has constructed, none of them registered yet
InitRegister ==
    /\ policy \in Policies
    /\ timeQuantum \in IF policy = "RR" THEN {MaxQuantum} ELSE {0}
    /\ quantumRemaining = timeQuantum
    /\ \E n \in 0..MaxProcs :
          /\ proc \in [1..n -> Constructed("FCFS")]
          /\ SumSeq([i \in 1..n |-> i], [p \in 1..n |-> proc[p].burstTime]) <= MaxWork
          /\ pid = [p \in 1..n |-> p]
          /\ nextPID = n + 1
          /\ readyWait = [p \in 1..n |-> 0]
          /\ readyPeers = [p \in 1..n |-> 0]
    /\ processes = <<>>
    /\ totalProcesses = 0
    /\ readyQueue = <<>>
    /\ currentProcess = NoProcess
    /\ currentTime = 0
    /\ completedProcesses = 0
    /\ totalWaitingTime = 0
    /\ totalTurnaroundTime = 0
    /\ totalResponseTime = 0
    /\ pc = "idle"
    /\ runs = 0
    /\ prevRun = Snapshot
    /\ sliceRun = 0

\* mutant: a registration without the duplicate-pid check
AddProcess_NoDuplicateCheck(process) ==
    /\ pc \in {"idle", "addProcess:true", "addProcess:false", "clearProcesses"}
    /\ IF process = NoProcess
       THEN /\ pc' = "addProcess:false"
            /\ UNCHANGED <<processes, totalProcesses>>
       ELSE /\ processes' = Append(processes, process)
            /\ totalProcesses' = totalProcesses + 1
            /\ pc' = "addProcess:true"
    /\ UNCHANGED <<proc, readyQueue, currentProcess, currentTime, policy, timeQuantum, nextPID, pid,
                   quantumRemaining, completedProcesses, totalWaitingTime,
                   totalTurnaroundTime, totalResponseTime, histVars>>

\* Scheduler::addProcess(process); the caller's position records what it returned
AddProcess(process) ==
    /\ pc \in {"idle", "addProcess:true", "addProcess:false", "clearProcesses"}
    /\ IF process = NoProcess
       THEN /\ pc' = "addProcess:false"
            /\ UNCHANGED <<processes, totalProcesses>>
       ELSE IF \E i \in DOMAIN processes : pid[processes[i]] = pid[process]
       THEN /\ pc' = "addProcess:false"
            /\ UNCHANGED <<processes, totalProcesses>>
       ELSE /\ processes' = Append(processes, process)
            /\ totalProcesses' = totalProcesses + 1
            /\ pc' = "addProcess:true"
    /\ UNCHANGED <<proc, readyQueue, currentProcess, currentTime, policy, timeQuantum, nextPID, pid,
                   quantumRemaining, completedProcesses, totalWaitingTime,
                   totalTurnaroundTime, totalResponseTime, histVars>>

\* Scheduler::clearProcesses(): empties the set and calls reset()
ClearProcesses ==
    /\ pc \in {"idle", "addProcess:true", "addProcess:false", "clearProcesses"}
    /\ processes' = <<>>
    /\ totalProcesses' = 0
    /\ currentTime' = 0
    /\ currentProcess' = NoProcess
    /\ readyQueue' = <<>>
    /\ completedProcesses' = 0
    /\ totalWaitingTime' = 0
    /\ totalTurnaroundTime' = 0
    /\ totalResponseTime' = 0
    /\ pc' = "clearProcesses"
    /\ UNCHANGED <<proc, policy, timeQuantum, nextPID, pid, quantumRemaining, histVars>>

NextRegister ==
    \/ \E process \in Pids \cup {NoProcess} : AddProcess(process)
    \/ ClearProcesses

\* any sequence of addProcess and clearProcesses calls
SpecRegister == InitRegister /\ [][NextRegister]_vars

\* a caller writes an invalid value into a public field of a registered
\* process (Process::arrivalTime and Process::burstTime are public), before
\* the first run or after a run has returned
SetInvalid ==
    /\ pc \in {"idle", "done"}
    /\ validateProcessSet
    /\ \E p \in Pids :
          \/ proc' = [proc EXCEPT ![p].arrivalTime = -1]
          \/ \E b \in {0, -1} : proc' = [proc EXCEPT ![p].burstTime = b]
    /\ UNCHANGED <<processes, readyQueue, currentProcess, currentTime, policy,
                   timeQuantum, nextPID, pid, quantumRemaining, totalProcesses, completedProcesses,
                   totalWaitingTime, totalTurnaroundTime, totalResponseTime, pc,
                   histVars>>

\* a further runSimulation() on an invalid process set: returns false before reset()
RunAgainFail ==
    /\ pc = "done"
    /\ ~validateProcessSet
    /\ pc' = "failed"
    /\ UNCHANGED <<engineVars, policy, timeQuantum, nextPID, pid, totalProcesses, histVars>>

NextValidate ==
    \/ Next
    \/ SetInvalid
    \/ RunAgainFail

\* runs on process sets that a caller may have made invalid
SpecValidate == Init /\ [][NextValidate]_vars

\* a process object in any state, with small values in its time fields
AnyProcess ==
    [ state          : ProcessState,
      priority       : {MEDIUM},
      arrivalTime    : 0..MaxValue,
      burstTime      : 1..(MaxValue + 1),
      remainingTime  : 0..(MaxValue + 1),
      waitingTime    : 0..MaxValue,
      turnaroundTime : 0..MaxValue,
      responseTime   : {Unset} \cup 0..MaxValue,
      startTime      : {Unset} \cup 0..MaxValue,
      hasStarted     : BOOLEAN ]

\* one process object exists, in any state; no scheduler holds it
InitProcess ==
    /\ \E p \in AnyProcess : proc = << p >>
    /\ pid = << 1 >>
    /\ nextPID = 2
    /\ policy = "FCFS"
    /\ timeQuantum = 0
    /\ quantumRemaining = 0
    /\ processes = <<>>
    /\ totalProcesses = 0
    /\ readyWait = <<>>
    /\ readyPeers = <<>>
    /\ readyQueue = <<>>
    /\ currentProcess = NoProcess
    /\ currentTime = 0
    /\ completedProcesses = 0
    /\ totalWaitingTime = 0
    /\ totalTurnaroundTime = 0
    /\ totalResponseTime = 0
    /\ pc = "idle"
    /\ runs = 0
    /\ prevRun = [metrics |-> <<>>, total |-> 0]
    /\ sliceRun = 0

\* make_shared<Process>(name, arrival, burst, prio)
Construct(arrival, burst, prio) ==
    /\ Len(proc) < MaxObjects
    /\ proc' = Append(proc, NewProcess(arrival, burst, prio))
    /\ pid' = Append(pid, nextPID)
    /\ nextPID' = nextPID + 1
    /\ UNCHANGED <<schedulerVars, policy, timeQuantum, totalProcesses, pc, histVars>>

\* mutant: a copy constructor that copies the pid with the rest
CopyConstruct_SamePid(other) ==
    /\ Len(proc) < MaxObjects
    /\ proc' = Append(proc, proc[other])
    /\ pid' = Append(pid, pid[other])
    /\ UNCHANGED <<schedulerVars, policy, timeQuantum, nextPID, totalProcesses, pc, histVars>>

\* Process::Process(const Process& other)
CopyConstruct(other) ==
    /\ Len(proc) < MaxObjects
    /\ proc' = Append(proc, proc[other])
    /\ pid' = Append(pid, nextPID)
    /\ nextPID' = nextPID + 1
    /\ UNCHANGED <<schedulerVars, policy, timeQuantum, totalProcesses, pc, histVars>>

\* Process::operator=(const Process& other) on object this
Assign(this, other) ==
    /\ this # other
    /\ proc' = [proc EXCEPT ![this] = proc[other]]
    /\ UNCHANGED <<schedulerVars, policy, timeQuantum, nextPID, pid, totalProcesses, pc, histVars>>

\* Process::reset() on object o
Reset(o) ==
    /\ proc' = [proc EXCEPT ![o] = ProcessReset(proc[o])]
    /\ UNCHANGED <<schedulerVars, policy, timeQuantum, nextPID, pid, totalProcesses, pc, histVars>>

\* Process::updateStatistics(completionTime) on object o
UpdateStatistics(o, completionTime) ==
    /\ proc' = [proc EXCEPT ![o] = updateStatistics(proc[o], completionTime)]
    /\ UNCHANGED <<schedulerVars, policy, timeQuantum, nextPID, pid, totalProcesses, pc, histVars>>

NextProcess ==
    \/ \E arrival \in -1..MaxValue, burst \in -1..(MaxValue + 1), prio \in Priorities :
          Construct(arrival, burst, prio)
    \/ \E other \in Pids : CopyConstruct(other)
    \/ \E this, other \in Pids : Assign(this, other)
    \/ \E o \in Pids : Reset(o)
    \/ \E o \in Pids, completionTime \in 0..(MaxValue + 2) : UpdateStatistics(o, completionTime)

\* the operations of the Process class on up to MaxObjects objects
SpecProcess == InitProcess /\ [][NextProcess]_vars

\* process objects on their own, or a scheduler with its registered processes
InitIds == Init \/ InitProcess

\* the Process operations while no scheduler holds the objects, and the runs
\* of a scheduler on its registered processes
NextIds ==
    \/ (pc = "idle" /\ processes = <<>> /\ NextProcess)
    \/ NextRerun

\* everything that happens to process objects: construction, copy,
\* assignment, reset, completion statistics, and runs
SpecIds == InitIds /\ [][NextIds]_vars

\* the sum of the waiting times the previous run ended with
prevWaitingTime == SumSeq(processes, [p \in Pids |-> prevRun.metrics[p][2]])

\* ================================================================ claims

\* C1: from every process set that passes validation, under each of the four
\* policies, the run reaches a state in which every registered process is
\* TERMINATED and the run has returned, and it stays there (no process starves).
C1_RunTerminates ==
    [](validateProcessSet => <>[](pc = "done" /\ allCompleted(proc)))

\* a Round Robin run of MaxProcs processes has ended, and one of them was preempted
C1_Witness ==
    /\ pc = "done"
    /\ policy = "RR"
    /\ Len(processes) >= 3
    /\ allCompleted(proc)
    /\ \E p \in Pids : proc[p].waitingTime > proc[p].responseTime

\* C2: conservation law: after a run under any policy every process has
\* turnaroundTime = waitingTime + burstTime (and so has every process from the
\* moment it terminates).
C2_Conservation ==
    /\ \A p \in Pids :
          proc[p].state = "TERMINATED" =>
             proc[p].turnaroundTime = proc[p].waitingTime + proc[p].burstTime
    /\ pc = "done" =>
          \A p \in Pids :
             proc[p].turnaroundTime = proc[p].waitingTime + proc[p].burstTime

\* a run has ended in which a process waited while a terminated one was aged past
C2_Witness ==
    /\ pc = "done"
    /\ Len(processes) >= 2
    /\ \E p, q \in Pids :
          /\ proc[p].waitingTime > 0
          /\ proc[q].arrivalTime + proc[q].turnaroundTime < currentTime

\* C3: determinism: a further run of the same scheduler on the same process
\* set, started from the state the previous run left, ends with the same
\* per-process startTime, waitingTime, turnaroundTime and responseTime and
\* the same total elapsed time as the previous run.
C3_Determinism ==
    (pc = "done" /\ runs >= 2) => Snapshot = prevRun

\* a step of a non-preemptive policy leaves the running process running, or
\* terminates it and leaves the CPU idle
C4_StaysRunning ==
    (policy # "RR" /\ currentProcess # NoProcess) =>
        \/ /\ currentProcess' = currentProcess
           /\ proc'[currentProcess].state = "RUNNING"
        \/ /\ currentProcess' = NoProcess
           /\ proc'[currentProcess].state = "TERMINATED"
           /\ proc'[currentProcess].remainingTime = 0

\* a terminated process of a non-preemptive policy completed at startTime + burstTime
C4_CompletesAtStartPlusBurst ==
    policy # "RR" =>
        \A p \in Pids :
            proc[p].state = "TERMINATED" =>
                proc[p].arrivalTime + proc[p].turnaroundTime
                    = proc[p].startTime + proc[p].burstTime

\* C4: under FCFS, SJF and Priority a dispatched process stays the running
\* process at every step until it terminates, whatever arrives meanwhile, and
\* it completes at exactly startTime + burstTime.
C4_NonPreemptive ==
    /\ []C4_CompletesAtStartPlusBurst
    /\ [][C4_StaysRunning]_vars

\* under SJF a process keeps running although a shorter job waits in the queue
C4_Witness ==
    /\ policy = "SJF"
    /\ pc = "dispatch"
    /\ currentProcess # NoProcess
    /\ sliceRun >= 1
    /\ \E q \in Range(readyQueue) :
          proc[q].burstTime < proc[currentProcess].remainingTime

\* the dispatch decision of Round Robin on a running process: preempted to the
\* tail when it has used its quantum and the queue is not empty, kept otherwise
C5_PreemptAtDecision ==
    (policy = "RR" /\ pc = "dispatch" /\ currentProcess # NoProcess) =>
        IF sliceRun >= timeQuantum /\ readyQueue # <<>>
        THEN /\ proc'[currentProcess].state = "READY"
             /\ currentProcess' = Head(readyQueue)
             /\ readyQueue' = Append(Tail(readyQueue), currentProcess)
        ELSE /\ currentProcess' = currentProcess
             /\ readyQueue' = readyQueue

\* a process about to execute while the queue is not empty has executed fewer
\* than Q units since its dispatch
C5_AtMostQuantumWhileOthersReady ==
    (policy = "RR" /\ pc = "execute" /\ currentProcess # NoProcess
        /\ readyQueue # <<>>) => sliceRun < timeQuantum

\* C5: under Round Robin the running process is preempted exactly when its
\* quantum is used up and it has work left: at a dispatch decision with a
\* non-empty ready queue, a process that has executed Q units or more since its
\* dispatch goes to the tail of the queue and the head of the queue is
\* dispatched, one that has executed fewer stays; and no process executes
\* more than Q consecutive units while another process is ready.
C5_QuantumPreemption ==
    /\ []C5_AtMostQuantumWhileOthersReady
    /\ [][C5_PreemptAtDecision]_vars

\* C6: Round Robin fairness bound: a READY process never waits longer than
\* (n-1) x Q ticks since it became READY, n being the largest number of
\* processes that were READY or RUNNING together during that wait.
C6_FairnessBound ==
    policy = "RR" =>
        \A p \in Pids :
            (proc[p].state = "READY" /\ readyWait[p] > 0) =>
                readyWait[p] <= (readyPeers[p] - 1) * timeQuantum

\* C7: under FCFS a process with a strictly smaller arrival time is dispatched
\* and terminates before a later one is dispatched, and every process starts
\* at the later of its arrival time and the completion time of the process
\* dispatched before it.
C7_ArrivalOrder ==
    policy = "FCFS" =>
        /\ \A a, b \in Pids :
              (proc[a].arrivalTime < proc[b].arrivalTime /\ proc[b].hasStarted) =>
                 /\ proc[a].state = "TERMINATED"
                 /\ proc[a].arrivalTime + proc[a].turnaroundTime <= proc[b].startTime
        /\ \A p \in Pids :
              proc[p].hasStarted =>
                 LET before == {q \in Pids : /\ proc[q].hasStarted
                                             /\ proc[q].startTime < proc[p].startTime}
                     done == {proc[q].arrivalTime + proc[q].turnaroundTime : q \in before}
                 IN /\ \A q \in before : proc[q].state = "TERMINATED"
                    /\ proc[p].startTime =
                          MaxOf(proc[p].arrivalTime,
                                IF before = {} THEN 0 ELSE SetMax(done))

\* an FCFS run has ended in which a process registered later arrived earlier
\* and the earlier-registered one waited for it
C7_Witness ==
    /\ policy = "FCFS"
    /\ pc = "done"
    /\ \E a, b \in Pids :
          /\ a > b
          /\ proc[a].arrivalTime < proc[b].arrivalTime
          /\ proc[b].waitingTime > 0
          /\ proc[b].startTime = proc[a].arrivalTime + proc[a].turnaroundTime

\* C8: under FCFS processes with equal arrival times are dispatched in the
\* order in which they were registered (pids are handed out in that order).
C8_TiesInRegistrationOrder ==
    policy = "FCFS" =>
        \A a, b \in Pids :
            (a < b /\ proc[a].arrivalTime = proc[b].arrivalTime /\ proc[b].hasStarted) =>
                /\ proc[a].hasStarted
                /\ proc[a].startTime < proc[b].startTime

\* a dispatch of SJF on an idle CPU and a non-empty queue
C9_DispatchStep ==
    (policy = "SJF" /\ pc = "dispatch" /\ currentProcess = NoProcess
        /\ readyQueue # <<>>) =>
        /\ currentProcess' \in Range(readyQueue)
        /\ \A q \in Range(readyQueue) :
              /\ proc[currentProcess'].burstTime <= proc[q].burstTime
              /\ proc[q].burstTime = proc[currentProcess'].burstTime =>
                    IndexOf(readyQueue, currentProcess') <= IndexOf(readyQueue, q)

\* C9: under SJF every dispatch takes a process whose burst time is the
\* smallest in the ready queue at that moment and, among those, the one
\* nearest the head of the queue.
C9_ShortestJobFirst == [][C9_DispatchStep]_vars

\* SJF has just dispatched one of two equally short jobs out of a queue of three
C9_Witness ==
    /\ policy = "SJF"
    /\ pc = "execute"
    /\ currentProcess # NoProcess
    /\ proc[currentProcess].startTime = currentTime
    /\ Len(readyQueue) >= 2
    /\ \E q \in Range(readyQueue) :
          proc[q].burstTime = proc[currentProcess].burstTime
    /\ \E q \in Range(readyQueue) :
          proc[q].burstTime > proc[currentProcess].burstTime

\* a dispatch of Priority on an idle CPU and a non-empty queue
C10_DispatchStep ==
    (policy = "Priority" /\ pc = "dispatch" /\ currentProcess = NoProcess
        /\ readyQueue # <<>>) =>
        /\ currentProcess' \in Range(readyQueue)
        /\ \A q \in Range(readyQueue) :
              /\ proc[currentProcess'].priority <= proc[q].priority
              /\ proc[q].priority = proc[currentProcess'].priority =>
                    IndexOf(readyQueue, currentProcess') <= IndexOf(readyQueue, q)

\* C10: under Priority every dispatch takes a process whose priority value is
\* the smallest (most urgent) in the ready queue at that moment and, among
\* those, the one nearest the head of the queue.
C10_MostUrgentFirst == [][C10_DispatchStep]_vars

\* Priority has just dispatched one of two equally urgent processes out of a
\* queue of three whose head was less urgent
C10_Witness ==
    /\ policy = "Priority"
    /\ pc = "execute"
    /\ currentProcess # NoProcess
    /\ proc[currentProcess].startTime = currentTime
    /\ Len(readyQueue) >= 2
    /\ proc[readyQueue[1]].priority > proc[currentProcess].priority
    /\ \E q \in Range(readyQueue) :
          proc[q].priority = proc[currentProcess].priority

\* C11: for every valid process set, the average waiting time of the SJF run
\* is at most the average waiting time of the FCFS run on the same set (both
\* averages divide by the same number of processes, so the sums are compared).
C11_SJFNoWorseThanFCFS ==
    (pc = "done" /\ policy = "SJF" /\ runs = 2)
        => totalWaitingTime <= prevWaitingTime

\* both runs of a set of MaxProcs processes have ended and SJF waited strictly less
C11_Witness ==
    /\ pc = "done"
    /\ policy = "SJF"
    /\ runs = 2
    /\ Len(processes) = MaxProcs
    /\ totalWaitingTime < prevWaitingTime

\* the scheduler of the example: Round Robin with quantum 2, P1(arrival 0,
\* burst 6) and P2(arrival 0, burst 2) registered in that order
C12_Example ==
    /\ policy = "RR"
    /\ timeQuantum = 2
    /\ processes = <<1, 2>>
    /\ proc[1].arrivalTime = 0 /\ proc[1].burstTime = 6
    /\ proc[2].arrivalTime = 0 /\ proc[2].burstTime = 2

\* C12: in the example the unit [t, t+1) is executed by P1 for t in [0,2),
\* P2 for t in [2,4), P1 for t in [4,8); P2 completes at 4 with waiting 2 and
\* P1 completes at 8 with waiting 2.
C12_ExampleSchedule ==
    C12_Example =>
        /\ pc = "execute" =>
              /\ currentTime \in 0..7
              /\ currentProcess = IF currentTime \in {2, 3} THEN 2 ELSE 1
        /\ proc[2].state = "TERMINATED" <=> (currentTime >= 4 \/ (currentTime = 3 /\ pc = "age"))
        /\ proc[1].state = "TERMINATED" <=> (currentTime >= 8 \/ (currentTime = 7 /\ pc = "age"))
        /\ pc = "done" =>
              /\ currentTime = 8
              /\ proc[2].arrivalTime + proc[2].turnaroundTime = 4
              /\ proc[2].waitingTime = 2
              /\ proc[1].arrivalTime + proc[1].turnaroundTime = 8
              /\ proc[1].waitingTime = 2

\* the run of the example has ended
C12_Witness ==
    /\ C12_Example
    /\ pc = "done"
    /\ proc[1].state = "TERMINATED"
    /\ proc[2].state = "TERMINATED"

\* what one addProcess(process) call does, by the case of its argument
C13_AddStep ==
    \A process \in Pids \cup {NoProcess} :
        AddProcess(process) =>
            IF process = NoProcess \/ process \in Range(processes)
            THEN /\ pc' = "addProcess:false"
                 /\ processes' = processes
                 /\ totalProcesses' = totalProcesses
            ELSE /\ pc' = "addProcess:true"
                 /\ processes' = processes \o <<process>>
                 /\ totalProcesses' = totalProcesses + 1

\* the registered count is the size of the set and no id is registered twice
C13_CountAndIds ==
    /\ totalProcesses = Len(processes)
    /\ \A i, j \in DOMAIN processes : i # j => processes[i] # processes[j]

\* C13: addProcess(p) returns false and changes neither the set nor the count
\* when p is null or its id is registered already, and otherwise appends p,
\* adds one to the count and returns true; after any sequence of addProcess
\* and clearProcesses calls the count is the size of the set and the ids differ.
C13_Registration ==
    /\ [][C13_AddStep]_vars
    /\ []C13_CountAndIds

\* a duplicate was just refused by a scheduler holding MaxProcs processes
C13_Witness ==
    /\ pc = "addProcess:false"
    /\ totalProcesses = MaxProcs
    /\ Len(processes) = MaxProcs

\* the process set is empty or holds a negative arrival or a non-positive burst
C14_InvalidSet ==
    \/ processes = <<>>
    \/ \E i \in DOMAIN processes :
          \/ proc[processes[i]].arrivalTime < 0
          \/ proc[processes[i]].burstTime <= 0

\* a call of run on an invalid set fails and changes nothing, and no step
\* of the loop follows the failure
C14_FailStep ==
    /\ (pc \in {"idle", "done"} /\ pc' # pc /\ C14_InvalidSet) =>
          /\ pc' = "failed"
          /\ UNCHANGED <<currentTime, readyQueue, currentProcess, proc, processes,
                         totalProcesses, completedProcesses, totalWaitingTime,
                         totalTurnaroundTime, totalResponseTime>>
    /\ pc # "failed"

\* C14: run fails when the process set is empty or holds a process with a
\* negative arrival time or a non-positive burst time; then no tick is
\* executed and clock, ready queue, aggregates and every process are unchanged.
C14_InvalidRunFails == [][C14_FailStep]_vars

\* a run failed on a burst a caller had zeroed after an earlier run, whose
\* clock and metrics are still there
C14_Witness ==
    /\ pc = "failed"
    /\ runs = 1
    /\ currentTime > 0
    /\ \E p \in Pids : proc[p].burstTime <= 0 /\ proc[p].state = "TERMINATED"

\* C15: every successful run starts its loop from a clean state whatever an
\* earlier run left behind: clock 0, empty ready queue, no current process,
\* zeroed aggregates, a full Round Robin quantum, and every registered process
\* NEW with remainingTime = burstTime, waitingTime 0, turnaroundTime 0,
\* start and response time unset and has-started false.
C15_CleanStart ==
    (pc = "arrive" /\ currentTime = 0) =>
        /\ readyQueue = <<>>
        /\ currentProcess = NoProcess
        /\ completedProcesses = 0
        /\ totalWaitingTime = 0
        /\ totalTurnaroundTime = 0
        /\ totalResponseTime = 0
        /\ policy = "RR" => quantumRemaining = timeQuantum
        /\ \A i \in DOMAIN processes :
              LET p == proc[processes[i]] IN
              /\ p.state = "NEW"
              /\ p.remainingTime = p.burstTime
              /\ p.waitingTime = 0
              /\ p.turnaroundTime = 0
              /\ p.startTime = Unset
              /\ p.responseTime = Unset
              /\ p.hasStarted = FALSE

\* a second run is at the start of its loop, after a first run that ended
\* with a non-zero clock, waiting processes and (Round Robin) a spent quantum
C15_Witness ==
    /\ pc = "arrive"
    /\ currentTime = 0
    /\ runs = 2
    /\ prevRun.total > 0
    /\ \E p \in Pids : prevRun.metrics[p][2] > 0
    /\ policy = "RR"

\* every process has between 0 and burstTime units left
C16_RemainingInRange ==
    \A p \in Pids : 0 <= proc[p].remainingTime /\ proc[p].remainingTime <= proc[p].burstTime

\* no step of a run gives a process more remaining time than it had
C16_RemainingNotIncreased ==
    \A p \in Pids : proc'[p].remainingTime <= proc[p].remainingTime

\* C16: in every reachable state of a run, under every policy, each process has
\* 0 <= remainingTime <= burstTime, and remaining time never increases
\* during the run and never goes below 0.
C16_RemainingTimeBounds ==
    /\ []C16_RemainingInRange
    /\ [][C16_RemainingNotIncreased]_vars

\* in the middle of a run: one process is done, another partly executed, a third untouched
C16_Witness ==
    \E p, q, r \in Pids :
        /\ proc[p].remainingTime = 0
        /\ 0 < proc[q].remainingTime /\ proc[q].remainingTime < proc[q].burstTime
        /\ proc[r].state = "READY" /\ proc[r].remainingTime = proc[r].burstTime

\* C17: in every reachable state of a run, under every policy, each process has
\* waitingTime >= 0; the value turnaround - burst assigned at completion
\* without flooring is never negative.
C17_WaitingNonNegative ==
    \A p \in Pids :
        /\ proc[p].waitingTime >= 0
        /\ proc[p].state = "TERMINATED" => proc[p].turnaroundTime - proc[p].burstTime >= 0

\* a process completed without ever waiting (turnaround - burst is exactly 0)
\* and another completed after waiting
C17_Witness ==
    \E p, q \in Pids :
        /\ proc[p].state = "TERMINATED"
        /\ proc[p].turnaroundTime = proc[p].burstTime
        /\ proc[p].waitingTime = 0
        /\ proc[q].state = "TERMINATED"
        /\ proc[q].waitingTime > 0

\* a step leaves every TERMINATED process as it is, with nothing left to
\* execute, and out of the ready queue
C18_TerminatedStep ==
    \A p \in Pids :
        proc[p].state = "TERMINATED" =>
            /\ proc[p].remainingTime = 0
            /\ proc'[p].remainingTime = 0
            /\ proc'[p].state = "TERMINATED"
            /\ proc'[p].waitingTime = proc[p].waitingTime
            /\ proc'[p].turnaroundTime = proc[p].turnaroundTime
            /\ proc'[p].responseTime = proc[p].responseTime
            /\ proc'[p].startTime = proc[p].startTime
            /\ \A i \in DOMAIN readyQueue' : readyQueue'[i] # p
            /\ currentProcess' # p

\* C18: once a process is TERMINATED during a run its remainingTime is 0 and
\* its state, waitingTime, turnaroundTime, responseTime and startTime do not
\* change for the rest of the run; it is never put back in the ready queue.
C18_TerminatedIsFinal == [][C18_TerminatedStep]_vars

\* a process has been TERMINATED for at least two ticks while another one
\* is READY (aged every tick) and a third is still to be dispatched
C18_Witness ==
    \E p, q \in Pids :
        /\ proc[p].state = "TERMINATED"
        /\ currentTime >= proc[p].arrivalTime + proc[p].turnaroundTime + 2
        /\ proc[q].state = "READY"
        /\ pc = "dispatch"

\* a step changes startTime or responseTime only at the first dispatch, to the
\* clock and to the clock minus the arrival time, and a first dispatch does so
C19_StartStep ==
    \A p \in Pids :
        /\ (proc'[p].startTime # proc[p].startTime
              \/ proc'[p].responseTime # proc[p].responseTime) =>
                 /\ proc[p].startTime = Unset
                 /\ proc[p].responseTime = Unset
                 /\ proc[p].state = "READY"
                 /\ proc'[p].state = "RUNNING"
                 /\ currentProcess' = p
        /\ (proc'[p].state = "RUNNING" /\ proc[p].state # "RUNNING"
              /\ proc[p].remainingTime = proc[p].burstTime) =>
                 /\ proc'[p].startTime = currentTime
                 /\ proc'[p].responseTime = currentTime - proc[p].arrivalTime

\* C19: within a run startTime and responseTime are assigned exactly once, at
\* the first dispatch, startTime to the clock and responseTime to startTime -
\* arrivalTime; re-dispatches after a preemption and the completion step
\* leave both unchanged.
C19_StartAssignedOnce ==
    /\ [][C19_StartStep]_vars
    /\ [](\A p \in Pids : proc[p].state \in {"RUNNING", "TERMINATED"} =>
              /\ proc[p].startTime # Unset
              /\ proc[p].responseTime = proc[p].startTime - proc[p].arrivalTime)

\* a Round Robin process has just been dispatched again after a preemption
C19_Witness ==
    /\ policy = "RR"
    /\ pc = "execute"
    /\ currentProcess # NoProcess
    /\ sliceRun = 0
    /\ proc[currentProcess].remainingTime < proc[currentProcess].burstTime
    /\ proc[currentProcess].startTime < currentTime

\* the state changes a step of a run makes to one process
C20_TransitionStep ==
    \A p \in Pids :
        proc'[p].state # proc[p].state =>
            /\ << proc[p].state, proc'[p].state >> \in
                  { << "NEW", "READY" >>, << "READY", "RUNNING" >>,
                    << "RUNNING", "READY" >>, << "RUNNING", "TERMINATED" >> }
            /\ (proc[p].state = "RUNNING" /\ proc'[p].state = "READY") =>
                  /\ policy = "RR"
                  /\ proc[p].remainingTime > 0
                  /\ proc'[p].remainingTime > 0

\* C20: during a run the only state transitions are NEW->READY,
\* READY->RUNNING, RUNNING->READY and RUNNING->TERMINATED; RUNNING->READY
\* happens only under Round Robin and only with remainingTime > 0; no
\* process re-enters NEW, leaves TERMINATED, or is ever WAITING.
C20_StateTransitions ==
    /\ [][C20_TransitionStep]_vars
    /\ [](\A p \in Pids : proc[p].state # "WAITING")

\* a Round Robin process is back in the ready queue after a preemption,
\* next to a TERMINATED one and one that has not arrived
C20_Witness ==
    /\ policy = "RR"
    /\ \E p, q, r \in Pids :
          /\ proc[p].state = "READY"
          /\ proc[p].hasStarted
          /\ proc[p].remainingTime > 0
          /\ proc[q].state = "TERMINATED"
          /\ proc[r].state = "NEW"

\* C21: in every reachable state of a run at most one process is RUNNING, and
\* a process is RUNNING if and only if it is the engine's current process.
C21_OneRunning ==
    /\ Cardinality({p \in Pids : proc[p].state = "RUNNING"}) <= 1
    /\ \A p \in Pids : proc[p].state = "RUNNING" <=> currentProcess = p
    /\ currentProcess # NoProcess => currentProcess \in Pids

\* a Round Robin process runs after taking over from a preempted one, which
\* is READY again
C21_Witness ==
    /\ policy = "RR"
    /\ currentProcess # NoProcess
    /\ proc[currentProcess].state = "RUNNING"
    /\ \E q \in Pids : proc[q].state = "READY" /\ proc[q].hasStarted

\* C22: the registered process set keeps the order of registration through a
\* run: after a run under any policy the metrics table (one row per element
\* of the set, in its order) lists the processes in the order they were added
\* (pids are assigned in registration order).
C22_RegistrationOrderKept ==
    pc = "done" => \A i \in DOMAIN processes : processes[i] = i

\* the clock is 0 until the first iteration ends, and only the end of a loop
\* iteration changes it, by exactly one
C23_ClockStep ==
    /\ pc \in {"idle", "failed"} => currentTime = 0
    /\ currentTime' # currentTime => (pc = "age" /\ currentTime' = currentTime + 1)
    /\ (pc = "age" /\ pc' # "age") => currentTime' = currentTime + 1

\* after the run the clock is the latest completion time
C23_FinalClock ==
    pc = "done" =>
        /\ \A p \in Pids : proc[p].arrivalTime + proc[p].turnaroundTime <= currentTime
        /\ \E p \in Pids : proc[p].arrivalTime + proc[p].turnaroundTime = currentTime

\* C23: the clock starts at 0 and advances by exactly one per loop iteration,
\* and after a successful run the total elapsed time (the final clock) is the
\* maximum over all processes of arrivalTime + turnaroundTime.
C23_ClockAndElapsedTime ==
    /\ [][C23_ClockStep]_vars
    /\ []C23_FinalClock

\* a run of MaxProcs processes has ended after an idle gap (the clock is
\* larger than the work done) and the first registered process was not the last to end
C23_Witness ==
    /\ pc = "done"
    /\ Len(processes) = MaxProcs
    /\ currentTime > SumSeq(processes, [p \in Pids |-> proc[p].burstTime])
    /\ proc[1].arrivalTime + proc[1].turnaroundTime < currentTime

\* the fraction f = << numerator, denominator >> is the quotient sum / count
C24_IsQuotient(f, sum, count) ==
    /\ f[2] > 0 /\ count > 0
    /\ f[1] * count = sum * f[2]

\* C24: after a successful run the summed waiting, turnaround and response
\* times of the engine are the sums of the per-process metrics over the
\* registered processes, and each reported average is that sum divided by the
\* number of registered processes (0 when no process is registered).
C24_Aggregates ==
    /\ pc = "done" =>
          /\ totalWaitingTime = SumSeq(processes, [p \in Pids |-> proc[p].waitingTime])
          /\ totalTurnaroundTime = SumSeq(processes, [p \in Pids |-> proc[p].turnaroundTime])
          /\ totalResponseTime = SumSeq(processes, [p \in Pids |-> proc[p].responseTime])
          /\ C24_IsQuotient(getAverageWaitingTime,
                            SumSeq(processes, [p \in Pids |-> proc[p].waitingTime]),
                            Len(processes))
          /\ C24_IsQuotient(getAverageTurnaroundTime,
                            SumSeq(processes, [p \in Pids |-> proc[p].turnaroundTime]),
                            Len(processes))
          /\ C24_IsQuotient(getAverageResponseTime,
                            SumSeq(processes, [p \in Pids |-> proc[p].responseTime]),
                            Len(processes))
    /\ Len(processes) = 0 =>
          /\ getAverageWaitingTime[1] = 0
          /\ getAverageTurnaroundTime[1] = 0
          /\ getAverageResponseTime[1] = 0

\* a run of MaxProcs processes has ended with three different non-zero sums
C24_Witness ==
    /\ pc = "done"
    /\ Len(processes) = MaxProcs
    /\ 0 < totalResponseTime
    /\ totalResponseTime < totalWaitingTime
    /\ totalWaitingTime < totalTurnaroundTime

\* what constructing a process from (arrival, burst, prio) yields
C25_ConstructStep ==
    \A arrival \in -1..MaxValue, burst \in -1..(MaxValue + 1), prio \in Priorities :
        Construct(arrival, burst, prio) =>
            LET new == proc'[Len(proc')] IN
            /\ Len(proc') = Len(proc) + 1
            /\ new.state = "NEW"
            /\ new.arrivalTime >= 0
            /\ new.burstTime >= 1
            /\ new.remainingTime = new.burstTime
            /\ new.arrivalTime = IF arrival < 0 THEN 0 ELSE arrival
            /\ new.burstTime = IF burst <= 0 THEN 1 ELSE burst
            /\ new.priority = prio

\* the constructor accepts every argument
C25_NeverFails ==
    Len(proc) < MaxObjects =>
        \A arrival \in -1..MaxValue, burst \in -1..(MaxValue + 1), prio \in Priorities :
            ENABLED Construct(arrival, burst, prio)

\* C25: constructing a process never fails and always yields state NEW with
\* arrivalTime >= 0, burstTime >= 1 and remainingTime = burstTime: a negative
\* arrival becomes 0, a burst <= 0 becomes 1 (burst and remaining time), and
\* valid arguments are stored unchanged.
C25_Construction ==
    /\ [][C25_ConstructStep]_vars
    /\ []C25_NeverFails

\* a second process has been constructed, with a priority only the constructor
\* gives here, and burst and remaining time 1
C25_Witness ==
    /\ Len(proc) = 2
    /\ proc[2].priority = HIGH
    /\ proc[2].state = "NEW"
    /\ proc[2].arrivalTime = 0
    /\ proc[2].burstTime = 1
    /\ proc[2].remainingTime = 1

\* what reset() does to the object it is called on
C26_ResetStep ==
    \A o \in Pids :
        Reset(o) =>
            /\ proc'[o].state = "NEW"
            /\ proc'[o].remainingTime = proc[o].burstTime
            /\ proc'[o].waitingTime = 0
            /\ proc'[o].turnaroundTime = 0
            /\ proc'[o].startTime = -1
            /\ proc'[o].responseTime = -1
            /\ proc'[o].hasStarted = FALSE
            /\ pid'[o] = pid[o]
            /\ proc'[o].arrivalTime = proc[o].arrivalTime
            /\ proc'[o].burstTime = proc[o].burstTime
            /\ proc'[o].priority = proc[o].priority
            /\ ProcessReset(proc'[o]) = proc'[o]

\* C26: reset() from any state sets state NEW, remainingTime = burstTime,
\* waitingTime 0, turnaroundTime 0, start and response time -1 and has-started
\* false, leaves id, arrivalTime, burstTime and priority unchanged, and a
\* second reset changes nothing more.
C26_ResetEffect == [][C26_ResetStep]_vars

\* the first object has been reset after a copy of it was taken in state
\* TERMINATED with metrics and a remaining time other than its burst
C26_Witness ==
    /\ Len(proc) = 2
    /\ proc[2].state = "TERMINATED"
    /\ proc[2].waitingTime > 0
    /\ proc[2].hasStarted
    /\ proc[2].remainingTime # proc[2].burstTime
    /\ proc[1].state = "NEW"
    /\ proc[1].waitingTime = 0
    /\ ~proc[1].hasStarted
    /\ proc[1].burstTime = proc[2].burstTime
    /\ proc[1].remainingTime = proc[1].burstTime

\* what updateStatistics(completionTime) does to the object it is called on
C27_UpdateStep ==
    \A o \in Pids, completionTime \in 0..(MaxValue + 2) :
        UpdateStatistics(o, completionTime) =>
            LET turnaround == completionTime - proc[o].arrivalTime IN
            /\ proc'[o].turnaroundTime = turnaround
            /\ proc'[o].waitingTime = MaxOf(0, turnaround - proc[o].burstTime)
            /\ proc'[o].state = "TERMINATED"
            /\ proc'[o].remainingTime = 0
            /\ proc[o].responseTime # Unset => proc'[o].responseTime = proc[o].responseTime
            /\ (proc[o].responseTime = Unset /\ proc[o].startTime # Unset) =>
                  proc'[o].responseTime = proc[o].startTime - proc[o].arrivalTime
            /\ (proc[o].responseTime = Unset /\ proc[o].startTime = Unset) =>
                  proc'[o].responseTime = 0

\* C27: updateStatistics(c) sets turnaroundTime = c - arrivalTime, waitingTime
\* = max(0, turnaroundTime - burstTime), state TERMINATED and remainingTime 0;
\* it sets responseTime only when it was unset (to startTime - arrivalTime if
\* the process had started, i.e. has a start time, else to 0) and leaves a
\* responseTime that was set unchanged.
C27_CompletionStatistics == [][C27_UpdateStep]_vars

\* a process that never started was completed before its burst could have
\* been executed: the waiting time was floored and the response time set to 0
C27_Witness ==
    \E o \in Pids :
        /\ proc[o].state = "TERMINATED"
        /\ proc[o].turnaroundTime - proc[o].burstTime < 0
        /\ proc[o].turnaroundTime = -1
        /\ proc[o].waitingTime = 0
        /\ proc[o].remainingTime = 0
        /\ proc[o].startTime = Unset
        /\ proc[o].responseTime = 0

\* the ids in use differ from each other and lie below the generator
C28_UniqueIds ==
    /\ \A o1, o2 \in DOMAIN pid : o1 # o2 => pid[o1] # pid[o2]
    /\ \A o \in DOMAIN pid : pid[o] < nextPID

\* a step keeps the id of every existing object, and a new object gets an id
\* above every id assigned before
C28_IdStep ==
    /\ \A o \in DOMAIN pid : o \in DOMAIN pid' /\ pid'[o] = pid[o]
    /\ \A new \in DOMAIN pid' \ DOMAIN pid :
          /\ pid'[new] >= nextPID
          /\ \A o \in DOMAIN pid : pid'[new] > pid[o]
    /\ nextPID' >= nextPID

\* C28: process ids are unique and never reused: every constructed process,
\* copy-constructed ones included, gets an id strictly greater than every id
\* assigned before it, and no operation (reset, assignment from another
\* process, a run) changes a process's id afterwards.
C28_PidsUniqueAndFixed ==
    /\ []C28_UniqueIds
    /\ [][C28_IdStep]_vars

\* a copy has its own id, and the original was afterwards assigned from it
\* and reset without a change of id
C28_Witness ==
    /\ pid = << 1, 2 >>
    /\ nextPID = 3
    /\ proc[2].state = "TERMINATED"
    /\ proc[2].turnaroundTime = MaxValue + 2
    /\ proc[1] = ProcessReset(proc[2])

\* a process is NEW exactly as long as the tick of its arrival has not been
\* reached, and it has not started before it arrived
C29_AdmittedOnTime ==
    \A p \in Pids :
        /\ (pc \in {"dispatch", "execute", "age"} /\ proc[p].state = "NEW") =>
              proc[p].arrivalTime > currentTime
        /\ (pc = "arrive" /\ proc[p].state = "NEW") => proc[p].arrivalTime >= currentTime
        /\ proc[p].state \in {"READY", "RUNNING"} => proc[p].arrivalTime <= currentTime
        /\ proc[p].startTime # Unset =>
              /\ proc[p].startTime >= proc[p].arrivalTime
              /\ proc[p].responseTime >= 0

\* a process leaves NEW in the tick of its arrival, for the tail of the ready
\* queue, behind those already queued and in traversal order of the set
C29_AdmissionStep ==
    /\ \A p \in Pids :
          (proc[p].state = "NEW" /\ proc'[p].state # "NEW") =>
              /\ proc'[p].state = "READY"
              /\ currentTime = proc[p].arrivalTime
              /\ \E i \in DOMAIN readyQueue' : readyQueue'[i] = p /\ i > Len(readyQueue)
    /\ \A i, j \in DOMAIN readyQueue' :
          (i < j /\ proc[readyQueue'[i]].state = "NEW" /\ proc[readyQueue'[j]].state = "NEW") =>
              IndexOf(processes, readyQueue'[i]) < IndexOf(processes, readyQueue'[j])

\* C29: in a run a process becomes READY and enters the ready queue at exactly
\* the tick whose clock equals its arrival time, so none is READY or RUNNING
\* before its arrival and startTime >= arrivalTime (responseTime >= 0);
\* processes admitted in the same tick are queued in traversal order of the set.
C29_ArrivalAdmission ==
    /\ []C29_AdmittedOnTime
    /\ [][C29_AdmissionStep]_vars

\* two processes were admitted together at a tick after 0, while a third
\* that arrived before them holds the CPU
C29_Witness ==
    /\ pc = "dispatch"
    /\ currentTime > 0
    /\ currentProcess # NoProcess
    /\ Len(readyQueue) = 2
    /\ proc[readyQueue[1]].arrivalTime = currentTime
    /\ proc[readyQueue[2]].arrivalTime = currentTime

\* the aging step adds one to each process that is READY when it runs, and
\* nothing to any other process
C30_AgingStep ==
    pc = "age" =>
        \A p \in Pids :
            proc'[p].waitingTime =
                proc[p].waitingTime + (IF proc[p].state = "READY" THEN 1 ELSE 0)

\* at a loop-iteration boundary the aged waiting time of an admitted, not yet
\* terminated process is the time since arrival less the time executed
C30_AgedWaiting ==
    pc = "arrive" =>
        \A p \in Pids :
            proc[p].state \in {"READY", "RUNNING"} =>
                proc[p].waitingTime =
                    (currentTime - proc[p].arrivalTime)
                        - (proc[p].burstTime - proc[p].remainingTime)

\* the completion step assigns turnaround - burst, which is the value the
\* aging had accumulated
C30_CompletionStep ==
    \A p \in Pids :
        (proc[p].state # "TERMINATED" /\ proc'[p].state = "TERMINATED") =>
            /\ proc'[p].waitingTime = proc'[p].turnaroundTime - proc'[p].burstTime
            /\ proc'[p].waitingTime = proc[p].waitingTime

\* C30: the two waiting-time computations agree: aging adds exactly one per
\* tick to every process READY at the end of the tick and to no other, so at
\* every iteration boundary an admitted, unterminated process has
\* waitingTime = (clock - arrivalTime) - (burstTime - remainingTime), and at
\* completion the aged value equals the assigned turnaround - burst.
C30_WaitingTimesAgree ==
    /\ []C30_AgedWaiting
    /\ [][C30_AgingStep]_vars
    /\ [][C30_CompletionStep]_vars

\* a process that has waited has just completed while another, which has
\* waited too, is still READY
C30_Witness ==
    /\ pc = "age"
    /\ \E p, q \in Pids :
          /\ proc[p].state = "TERMINATED"
          /\ proc[p].turnaroundTime = currentTime + 1 - proc[p].arrivalTime
          /\ proc[p].waitingTime > 0
          /\ proc[q].state = "READY"
          /\ proc[q].waitingTime > 0

\* total remaining execution time of the registered processes
C31_TotalRemaining == SumSeq(processes, [p \in Pids |-> proc[p].remainingTime])

\* some process has arrived and is not terminated
C31_WorkPending ==
    \E p \in Pids : proc[p].arrivalTime <= currentTime /\ proc[p].state # "TERMINATED"

\* C31, of every iteration: the execute step of each loop iteration lowers the
\* total remaining time, and the other steps of the iteration keep it
C31_DecreasesEveryIteration ==
    [][ /\ pc = "execute" => C31_TotalRemaining' < C31_TotalRemaining
        /\ pc \in {"arrive", "dispatch", "age"} => C31_TotalRemaining' = C31_TotalRemaining
      ]_vars

\* C31, of the iterations with work: in every loop iteration in which a process has arrived and
\* is not terminated the total remaining execution time strictly decreases;
\* in an iteration without such a process (the CPU idles until the next
\* arrival) it is unchanged.
C31_DecreasesWhileWorkPending ==
    [][ /\ pc = "execute" =>
            IF C31_WorkPending
            THEN C31_TotalRemaining' < C31_TotalRemaining
            ELSE C31_TotalRemaining' = C31_TotalRemaining
        /\ pc \in {"arrive", "dispatch", "age"} => C31_TotalRemaining' = C31_TotalRemaining
      ]_vars

\* after idle iterations the first process to arrive has executed a unit
C31_Witness ==
    /\ pc = "age"
    /\ currentTime > 0
    /\ \A q \in Pids : proc[q].arrivalTime >= currentTime
    /\ \E p \in Pids :
          /\ proc[p].startTime = currentTime
          /\ proc[p].remainingTime < proc[p].burstTime

\* the execute step of an iteration: with an arrived, unfinished process
\* exactly one process executes exactly one unit, otherwise none executes
C32_ExecuteStep ==
    pc = "execute" =>
        IF C31_WorkPending
        THEN \E p \in Pids :
                /\ p = currentProcess
                /\ proc'[p].remainingTime = proc[p].remainingTime - 1
                /\ \A q \in Pids \ {p} : proc'[q].remainingTime = proc[q].remainingTime
        ELSE /\ currentProcess = NoProcess
             /\ \A q \in Pids : proc'[q].remainingTime = proc[q].remainingTime

\* no other step of the loop executes anything
C32_OtherSteps ==
    pc \in {"arrive", "dispatch", "age"} =>
        \A q \in Pids : proc'[q].remainingTime = proc[q].remainingTime

\* the CPU is idle at the execute step only when no arrived process is unfinished
C32_IdleOnlyWithoutWork ==
    (pc = "execute" /\ currentProcess = NoProcess) => ~C31_WorkPending

\* C32: the engine is work-conserving under every policy: in every loop
\* iteration in which a process has arrived and is not yet terminated exactly
\* one process executes exactly one time unit, and the CPU is idle in an
\* iteration only when no arrived process is unfinished.
C32_WorkConserving ==
    /\ []C32_IdleOnlyWithoutWork
    /\ [][C32_ExecuteStep]_vars
    /\ [][C32_OtherSteps]_vars

\* Round Robin has switched in this tick: the dispatched process executed its
\* unit while the preempted one waits with work left
C32_Witness ==
    /\ pc = "age"
    /\ policy = "RR"
    /\ currentProcess # NoProcess
    /\ sliceRun = 1
    /\ \E q \in Pids :
          /\ proc[q].state = "READY"
          /\ proc[q].remainingTime < proc[q].burstTime

\* C33: at every loop-iteration boundary of a run the ready queue contains
\* exactly the processes whose state is READY, each exactly once; the current
\* (RUNNING) process, NEW processes and TERMINATED processes are never in it.
C33_ReadyQueueIsReadySet ==
    /\ \A i \in DOMAIN readyQueue :
          /\ proc[readyQueue[i]].state = "READY"
          /\ readyQueue[i] # currentProcess
    /\ \A i, j \in DOMAIN readyQueue : readyQueue[i] = readyQueue[j] => i = j
    /\ pc \in {"arrive", "finish"} =>
          Range(readyQueue) = {p \in Pids : proc[p].state = "READY"}

\* at a boundary one process has terminated, one holds the CPU and one waits
C33_Witness ==
    /\ pc = "arrive"
    /\ currentProcess # NoProcess
    /\ Len(readyQueue) = 1
    /\ \E p \in Pids : proc[p].state = "TERMINATED"

\* C34: under Round Robin with quantum Q >= 1 the quantum counter stays
\* within 0..Q in every reachable state of a run.
C34_QuantumInRange ==
    policy = "RR" => quantumRemaining \in 0..timeQuantum

\* a step that makes a process RUNNING leaves the quantum counter at Q
C35_DispatchStep ==
    (policy = "RR" /\ \E p \in Pids : proc[p].state # "RUNNING" /\ proc'[p].state = "RUNNING") =>
        quantumRemaining' = timeQuantum

\* C35: under Round Robin every dispatch grants the dispatched process a full
\* quantum Q: the counter equals Q immediately after each dispatch, also after
\* the dispatch that follows a process completing before its quantum was used
\* up, so unused quantum is neither carried over to nor deducted from the
\* next process.
C35_FullQuantumOnDispatch == [][C35_DispatchStep]_vars

\* with Q = 2 a process of burst 1 completed in the previous tick, leaving a
\* unit of its quantum unused, and the next process was just dispatched with
\* the counter at Q
C35_Witness ==
    /\ pc = "execute"
    /\ policy = "RR"
    /\ timeQuantum = 2
    /\ quantumRemaining = timeQuantum
    /\ currentProcess # NoProcess
    /\ proc[currentProcess].startTime = currentTime
    /\ \E q \in Pids :
          /\ proc[q].state = "TERMINATED"
          /\ proc[q].burstTime = 1
          /\ proc[q].arrivalTime + proc[q].turnaroundTime = currentTime

\* a preemption puts the running process at the tail of the ready queue,
\* behind every process that arrived in this tick, and the process picked is
\* the head of the queue so extended
C36_PreemptionStep ==
    (/\ policy = "RR"
     /\ currentProcess # NoProcess
     /\ proc[currentProcess].state = "RUNNING"
     /\ proc'[currentProcess].state = "READY") =>
        /\ readyQueue' # <<>>
        /\ readyQueue'[Len(readyQueue')] = currentProcess
        /\ currentProcess' = Head(Append(readyQueue, currentProcess))
        /\ currentProcess' # currentProcess
        /\ \A q \in Pids \ {currentProcess} :
              (proc[q].arrivalTime = currentTime /\ proc[q].state = "READY") =>
                  \/ currentProcess' = q
                  \/ /\ IndexOf(readyQueue', q) > 0
                     /\ IndexOf(readyQueue', q) < IndexOf(readyQueue', currentProcess)

\* C36: under Round Robin, when a process is preempted in the tick in which
\* another process arrives, the new arrival is placed in the ready queue ahead
\* of the preempted process: the arrivals of the tick are admitted first and
\* the preempted process is re-enqueued at the tail before the next is picked.
C36_ArrivalAheadOfPreempted == [][C36_PreemptionStep]_vars

\* two processes arrived in the tick of a preemption: one was picked, the
\* other waits ahead of the preempted process
C36_Witness ==
    /\ pc = "execute"
    /\ policy = "RR"
    /\ Len(readyQueue) = 2
    /\ currentProcess # NoProcess
    /\ proc[currentProcess].arrivalTime = currentTime
    /\ proc[readyQueue[1]].arrivalTime = currentTime
    /\ proc[readyQueue[2]].arrivalTime < currentTime
    /\ proc[readyQueue[2]].remainingTime < proc[readyQueue[2]].burstTime
    /\ readyWait[readyQueue[2]] = 0

\* q entered the ready queue before p: it arrived earlier, or in the same
\* tick and earlier in the traversal of the registered set
C37_EnteredEarlier(q, p) ==
    \/ proc[q].arrivalTime < proc[p].arrivalTime
    \/ /\ proc[q].arrivalTime = proc[p].arrivalTime
       /\ IndexOf(processes, q) < IndexOf(processes, p)

\* the scan removes the chosen process and keeps the others in their order
C37_ScanKeepsOrder ==
    (/\ policy \in {"SJF", "Priority"}
     /\ pc = "dispatch"
     /\ currentProcess' # currentProcess) =>
        readyQueue' = SelectSeq(readyQueue, LAMBDA q : q # currentProcess')

\* the process dispatched is the earliest entrant among its equals in the queue
C37_EarliestOfEquals ==
    (/\ policy \in {"SJF", "Priority"}
     /\ pc = "dispatch"
     /\ currentProcess' # currentProcess) =>
        \A q \in Range(readyQueue) \ {currentProcess'} :
            (IF policy = "SJF"
             THEN proc[q].burstTime = proc[currentProcess'].burstTime
             ELSE proc[q].priority = proc[currentProcess'].priority) =>
                ~C37_EnteredEarlier(q, currentProcess')

\* C37: under SJF (resp. Priority), among processes of equal burst time (resp.
\* equal priority) that are in the ready queue together the one that entered
\* the queue earlier is dispatched first: the selection scan removes only the
\* chosen process and keeps the remaining processes in their previous
\* relative order.
C37_FifoAmongEquals ==
    /\ [][C37_ScanKeepsOrder]_vars
    /\ [][C37_EarliestOfEquals]_vars

\* C38: after a run under any policy every process satisfies
\* 0 <= responseTime <= waitingTime; under FCFS, SJF and Priority
\* responseTime = waitingTime for every process.
C38_ResponseWithinWaiting ==
    pc \in {"finish", "done"} =>
        \A p \in Pids :
            /\ 0 <= proc[p].responseTime
            /\ proc[p].responseTime <= proc[p].waitingTime
            /\ policy \in {"FCFS", "SJF", "Priority"} =>
                  proc[p].responseTime = proc[p].waitingTime

\* a Round Robin run has ended in which one process waited for its first
\* dispatch and another waited again after a preemption
C38_Witness ==
    /\ pc = "done"
    /\ policy = "RR"
    /\ \E p, q \in Pids :
          /\ proc[p].responseTime > 0
          /\ proc[q].responseTime < proc[q].waitingTime

\* C39: after a successful run under any of the four policies the engine's
\* completed-process count equals the number of registered processes.
C39_CompletedCount ==
    pc = "done" => completedProcesses = totalProcesses

\* a step that terminates the current process records what the inline
\* completion step records for it
C40_CompletionStep ==
    (/\ pc = "execute"
     /\ currentProcess # NoProcess
     /\ proc'[currentProcess].state = "TERMINATED") =>
        LET p == currentProcess
            inline == completeProcess([proc EXCEPT ![p].remainingTime = @ - 1],
                                      p, currentTime)[p]
        IN /\ proc'[p].turnaroundTime = inline.turnaroundTime
           /\ proc'[p].waitingTime = inline.waitingTime
           /\ proc'[p].turnaroundTime = (currentTime + 1) - proc[p].arrivalTime

\* C40: completing a process through the engine's shared helper
\* (executeTimeSlice calling completeProcessExecution) records the same
\* turnaround and waiting time as the completion step written inline in the
\* four policy loops: turnaround = (clock at the start of the tick + 1) -
\* arrivalTime, inclusive of the unit just executed.
C40_HelperMatchesInline == [][C40_CompletionStep]_vars
====
